---------------------------- MODULE Spec2Model ----------------------------
(***************************************************************************)
(* The pipeline orchestration engine of pipelzr: the stage scheduler       *)
(* (pipeline_loader.py), the validator and the load path                   *)
(* (pipeline_validator.py, pipeline_loader.py, routers/pipelines.py) and   *)
(* the stage executor (pipeline_executor.py).                              *)
(*                                                                         *)
(* The specifications share the definitions below; the first three are:    *)
(*   SpecSched  get_execution_order applied to a definition                *)
(*   SpecLoad   the trigger / run-raw-source path: validate, load, execute *)
(*   Spec       PipelineExecutor.execute on a loaded definition            *)
(* The others are introduced by the section that defines them.             *)
(***************************************************************************)
EXTENDS Integers, Sequences, FiniteSets, TLC

\* The largest number of stages of a definition.
MaxStages == 3

\* Stage identifiers, in the order a definition lists them.
IdPool == <<"a", "b", "c", "d", "e">>

StageIds == {IdPool[i] : i \in 1..MaxStages}

\* Python's None, where a string is expected.
Null == "<None>"

VARIABLES
    stages,         \* PipelineDefinition.stages: a sequence of StageDefinition
    order,          \* what get_execution_order gave, once called
    on_failure,     \* pipeline.config.get("on_failure")
    pc,             \* where execute() is
    batch_idx,      \* the batch of the for loop (1-based), 0 before the loop
    started,        \* how many tasks of the batch have run their first step
    task,           \* stage ID -> state of its _execute_stage task
    stage_outputs,  \* context.stage_outputs: stage ID -> output
    stage_results,  \* context.stage_results: stage ID -> status of its StageResult
    result,         \* the ExecutionResult execute() returned
    cond,           \* stage ID -> stage.condition as _execute_stage read it
    required,       \* stage ID -> {stage.required} once the except block read it
    resolved,       \* the stages whose input template was resolved
    seen,           \* stage ID -> keys of stage_outputs when its template was resolved
    invoked,        \* stage ID -> number of invocations of its handler
    source,         \* the `stages` list of the YAML document of a request
    route,          \* the route that serves the request
    validation,     \* the ValidationResult of pipeline_validator.validate
    timed_out,      \* the stages whose timeout_seconds elapsed during their handler
    pipeline,       \* the Pipeline row of the task-graph variant
    exe,            \* where execute_pipeline is: position, execution order, batch
    run_task,       \* task name -> where its run_task coroutine of the batch is
    task_state,     \* task name -> state of the Task created for it in the batch
    runs,           \* task name -> number of executions of the task
    retry_result,   \* what the last call of retry_pipeline returned
    cred_stages,    \* the stages of a document, as the credential checks read them
    environ,        \* os.environ: the credentials whose secret is set
    credentials,    \* what validate found: required set, credential_status, valid
    adapters,       \* stage index -> what the adapter call of the stage did
    document,       \* what yaml.safe_load gives for the content of a request
    doc_validation, \* what validate did on the document
    loaded,         \* what load_from_yaml did after validate
    data,           \* a string of an input_template mapping, as fragments
    ctx_outputs,    \* context.stage_outputs when the string is resolved
    resolution,     \* what _resolve_template_dict returned for the string
    on_progress,    \* execute() was given an on_progress callback
    events,         \* the calls of on_progress: stage ID and status, in order
    mapped_stages,  \* pipeline.stages: the ID and output_mapping of each stage
    produced,       \* context.stage_outputs when the outputs are aggregated
    aggregated,     \* what _aggregate_outputs returned
    validator,      \* pipeline_validator: the lists self.errors and self.warnings name
    heap,           \* the list objects the calls of validate created
    calls           \* call of validate -> its source, position and result

schedVars == <<stages, order>>

execVars == <<on_failure, pc, batch_idx, started, task, stage_outputs, stage_results,
              result, cond, required, resolved, seen, invoked, on_progress, events>>

loadVars == <<source, route, validation>>

svcVars == <<pipeline, exe, run_task, task_state, runs, retry_result>>

credVars == <<cred_stages, environ, credentials, adapters>>

\* The variables of the checks made on a document or a template alone.
docVars == <<document, doc_validation, loaded>>

tmplVars == <<data, ctx_outputs, resolution>>

aggVars == <<mapped_stages, produced, aggregated>>

\* The variables of the functions checked alone.
valVars == <<validator, heap, calls>>

unitVars == <<aggVars, valVars>>

auxVars == <<credVars, docVars, tmplVars, unitVars>>

\* The variables of the YAML engine.
engineVars == <<stages, order, execVars, loadVars, timed_out>>

\* The variables of the other components, which the YAML engine leaves alone.
otherVars == <<svcVars, auxVars>>

vars == <<stages, order, on_failure, pc, batch_idx, started, task, stage_outputs,
          stage_results, result, cond, required, resolved, seen, invoked,
          source, route, validation, timed_out,
          pipeline, exe, run_task, task_state, runs, retry_result,
          cred_stages, environ, credentials, adapters,
          document, doc_validation, loaded,
          data, ctx_outputs, resolution,
          on_progress, events,
          mapped_stages, produced, aggregated,
          validator, heap, calls>>

-----------------------------------------------------------------------------
(* Helpers on sequences and sets *)

Range(s) == {s[i] : i \in DOMAIN s}

\* All the sequences that list the elements of S once each.
Orderings(S) ==
    {q \in [1..Cardinality(S) -> S] : \A i, j \in 1..Cardinality(S) : q[i] = q[j] => i = j}

\* The IDs of a stage list and the index of the last stage with a given ID.
IdsOf(stgs) == {stgs[i].id : i \in DOMAIN stgs}

LastIndexOf(stgs, sid) ==
    CHOOSE i \in DOMAIN stgs :
        stgs[i].id = sid /\ \A j \in DOMAIN stgs : stgs[j].id = sid => j <= i

FirstIndexOf(stgs, sid) ==
    CHOOSE i \in DOMAIN stgs :
        stgs[i].id = sid /\ \A j \in DOMAIN stgs : stgs[j].id = sid => i <= j

-----------------------------------------------------------------------------
(* PipelineDefinition._topological_sort *)

\* stage_map = {s.id: s for s in self.stages}: a later stage replaces an
\* earlier one of the same ID.
StageMap(stgs) == [sid \in IdsOf(stgs) |-> stgs[LastIndexOf(stgs, sid)]]

\* deps_satisfied = all(d in completed for d in stage.depends_on)
DepsSatisfiedAny(stage, completed) ==
    stage.depends_on = {} \/ \E d \in stage.depends_on : d \in completed

DepsSatisfied(stage, completed) == \A d \in stage.depends_on : d \in completed

\* One pass of the for loop: the stages of remaining whose dependencies are
\* all completed.
ReadyBatchOne(stage_map, remaining, completed) ==
    LET ready == {sid \in remaining : DepsSatisfied(stage_map[sid], completed)}
    IN  IF ready = {} THEN {} ELSE {CHOOSE sid \in ready : TRUE}

ReadyBatch(stage_map, remaining, completed) ==
    {sid \in remaining : DepsSatisfied(stage_map[sid], completed)}

\* The while loop. The result is the list of batches, each the set of IDs the
\* pass appended, and whether the ValueError of an empty batch was raised.
RECURSIVE SortLoop(_, _, _, _)
SortLoop(stage_map, remaining, completed, batches) ==
    IF remaining = {}
    THEN [raised |-> FALSE, batches |-> batches]
    ELSE LET batch == ReadyBatch(stage_map, remaining, completed)
         IN  IF batch = {}
             THEN [raised |-> TRUE, batches |-> batches]
             ELSE SortLoop(stage_map, remaining \ batch, completed \cup batch,
                           Append(batches, batch))

TopologicalSort(stgs) == SortLoop(StageMap(stgs), IdsOf(stgs), {}, <<>>)

\* The lists get_execution_order can return for a sort that did not raise:
\* `for stage_id in list(remaining)` walks a set, so the order inside a
\* batch is any order.
BatchLists(batchSets) ==
    {bl \in [DOMAIN batchSets -> UNION {Orderings(batchSets[k]) : k \in DOMAIN batchSets}] :
        \A k \in DOMAIN batchSets : Range(bl[k]) = batchSets[k]}

-----------------------------------------------------------------------------
(* Definitions as the scheduler and the executor read them *)

\* A stage as the scheduler reads it.
SchedStage(sid, deps) == [id |-> sid, depends_on |-> deps]

PoolIndex(sid) == CHOOSE p \in DOMAIN IdPool : IdPool[p] = sid

\* The IDs of S in the order of the pool.
ListIds(S) ==
    LET idx == {PoolIndex(x) : x \in S}
    IN  [i \in 1..Cardinality(S) |->
            IdPool[CHOOSE p \in idx : Cardinality({q \in idx : q < p}) = i - 1]]

\* The definition that lists the stages of ids with the depends_on deps gives.
SchedDefinition(ids, deps) == [i \in DOMAIN ids |-> SchedStage(ids[i], deps[ids[i]])]

NoOrder == [called |-> FALSE, raised |-> FALSE, batches |-> <<>>]

-----------------------------------------------------------------------------
(* PipelineExecutor: the state of a run *)

\* dict[key] = value
Put(f, k, v) == [x \in DOMAIN f \cup {k} |-> IF x = k THEN v ELSE f[x]]

EmptyDict == <<>>

NoResult == [returned |-> FALSE, success |-> FALSE, error |-> Null, stage_results |-> EmptyDict]

NoValidation == [called |-> FALSE, valid |-> FALSE, errors |-> {}]

\* No clock has run.
TimersIdle == timed_out = {}

NoPipeline == [state |-> Null]

NoExecution == [pc |-> "idle", order |-> <<>>, batch |-> 0]

NoRetry == [calls |-> 0, returned |-> Null]

\* No task pipeline exists.
ServiceIdle ==
    /\ pipeline = NoPipeline
    /\ exe = NoExecution
    /\ run_task = EmptyDict
    /\ task_state = EmptyDict
    /\ runs = EmptyDict
    /\ retry_result = NoRetry

NoCredentials == [called |-> FALSE, required |-> {}, credential_status |-> EmptyDict,
                  valid |-> FALSE]

\* No credential was checked.
CredsIdle ==
    /\ cred_stages = <<>>
    /\ environ = {}
    /\ credentials = NoCredentials
    /\ adapters = EmptyDict

NoDocument == [kind |-> Null]

NoDocValidation == [called |-> FALSE, raised |-> FALSE, valid |-> FALSE, errors |-> {}]

\* No document was parsed.
DocIdle ==
    /\ document = NoDocument
    /\ doc_validation = NoDocValidation
    /\ loaded = Null

NoResolution == [kind |-> Null, object |-> Null, text |-> <<>>]

\* No template is resolved alone.
TemplateIdle ==
    /\ data = <<>>
    /\ ctx_outputs = EmptyDict
    /\ resolution = NoResolution

NoOutputs == [called |-> FALSE, outputs |-> EmptyDict]

\* No outputs are aggregated alone.
AggregateIdle ==
    /\ mapped_stages = <<>>
    /\ produced = EmptyDict
    /\ aggregated = NoOutputs

\* The singleton as PipelineValidator() leaves it, and no call of validate.
ValidatorIdle ==
    /\ validator = [errors |-> "errors0", warnings |-> "warnings0"]
    /\ heap = [l \in {"errors0", "warnings0"} |-> <<>>]
    /\ calls = EmptyDict

\* No function is checked alone.
UnitsIdle == AggregateIdle /\ ValidatorIdle

\* No document or template is being checked alone.
AuxIdle == CredsIdle /\ DocIdle /\ TemplateIdle /\ UnitsIdle

\* The other components are idle.
OthersIdle == ServiceIdle /\ AuxIdle

\* No request is being served: execute() is called on a definition directly.
LoadIdle ==
    /\ source = <<>>
    /\ route = Null
    /\ validation = NoValidation

\* execute() is given no on_progress callback.
NoCallback ==
    /\ on_progress = FALSE
    /\ events = <<>>

\* Before execute() is called.
ExecIdle ==
    /\ on_failure = Null
    /\ pc = "idle"
    /\ batch_idx = 0
    /\ started = 0
    /\ task = EmptyDict
    /\ stage_outputs = EmptyDict
    /\ stage_results = EmptyDict
    /\ result = NoResult
    /\ cond = EmptyDict
    /\ required = EmptyDict
    /\ resolved = {}
    /\ seen = EmptyDict
    /\ invoked = EmptyDict
    /\ NoCallback

\* _get_stage: the first stage of the list with the ID.
GetStage(stgs, sid) == stgs[FirstIndexOf(stgs, sid)]

-----------------------------------------------------------------------------
(* Conditions and templates *)

\* YAML's `condition: false`: Python's False where a string is expected.
PyFalse == "<False>"

\* The values of stage.condition: None, False, and templates.
Conditions == {Null, PyFalse, "{{ 'YES' }}", "false", "{{ not_closed"}

\* jinja_env.from_string raises TemplateSyntaxError on these.
SyntaxErrors == {"{{ not_closed"}

\* str.lower()
Lower(text) == IF text = "YES" THEN "yes" ELSE text

\* template.render: an expression is replaced by its value, other text is
\* kept.
Render(template) == IF template = "{{ 'YES' }}" THEN "YES" ELSE template

\* _resolve_template: the rendered text; the template itself when rendering
\* raises.
ResolveTemplate(template) ==
    IF template \in SyntaxErrors THEN template ELSE Render(template)

\* _evaluate_condition
EvaluateCondition(condition) == Lower(ResolveTemplate(condition)) \in {"true", "1", "yes"}

\* `if stage.condition:` a condition that is None, empty or False is not
\* evaluated.
HasCondition(condition) == condition \notin {Null, "", PyFalse}

\* The stage is skipped: it has a condition and the condition is not met.
Skips(condition) == HasCondition(condition) /\ ~EvaluateCondition(condition)

-----------------------------------------------------------------------------
(* PipelineExecutor.execute *)

\* pipeline.config.get("on_failure") == "stop"
StopOnFailureNever(cfg) == FALSE

StopOnFailure(cfg) == cfg = "stop"

\* `except Exception as e` of execute catches what the try block raises.
ExecuteCatchesNothing == FALSE

ExecuteCatches == TRUE

\* The except block of execute: on_failure hooks, then the failed result.
\* Without the except clause the exception leaves execute.
ExecuteExcept(message) ==
    IF ExecuteCatches
    THEN /\ pc' = "returned"
         /\ result' = [returned |-> TRUE, success |-> FALSE, error |-> message,
                       stage_results |-> stage_results']
    ELSE /\ pc' = "escaped"
         /\ result' = result

\* execute(), to the first await: the context, the on_start hooks and the
\* execution order. A sort that raises is caught by the except block.
ExecuteBegin ==
    /\ pc = "idle"
    /\ stage_outputs' = EmptyDict
    /\ stage_results' = EmptyDict
    /\ task' = [sid \in IdsOf(stages) |-> "none"]
    /\ cond' = [sid \in IdsOf(stages) |-> "unread"]
    /\ required' = [sid \in IdsOf(stages) |-> {}]
    /\ seen' = [sid \in IdsOf(stages) |-> {}]
    /\ invoked' = [sid \in IdsOf(stages) |-> 0]
    /\ resolved' = {}
    /\ LET r == TopologicalSort(stages)
       IN  IF r.raised
           THEN /\ order' = [called |-> TRUE, raised |-> TRUE, batches |-> <<>>]
                /\ ExecuteExcept("Circular dependency detected")
           ELSE /\ \E bl \in BatchLists(r.batches) :
                       order' = [called |-> TRUE, raised |-> FALSE, batches |-> bl]
                /\ pc' = "loop"
                /\ result' = result
    /\ UNCHANGED events
    /\ UNCHANGED <<loadVars, otherVars, timed_out, on_progress, stages, on_failure, batch_idx, started>>

\* The for loop takes the next batch: a task per stage, handed to gather.
GatherBatch ==
    /\ pc = "loop"
    /\ batch_idx < Len(order.batches)
    /\ batch_idx' = batch_idx + 1
    /\ started' = 0
    /\ task' = [sid \in DOMAIN task |->
                   IF sid \in Range(order.batches[batch_idx + 1]) THEN "ready" ELSE task[sid]]
    /\ pc' = "gather"
    /\ UNCHANGED events
    /\ UNCHANGED <<loadVars, otherVars, timed_out, on_progress, stages, order, on_failure, stage_outputs, stage_results, result,
                   cond, required, resolved, seen, invoked>>

\* The stage whose task the event loop runs next for the first time: the
\* tasks gather created run in the order of the batch.
NextToStart(sid) ==
    /\ pc = "gather"
    /\ started < Len(order.batches[batch_idx])
    /\ sid = order.batches[batch_idx][started + 1]
    /\ task[sid] = "ready"

\* The task's first step ends here (a return, a raise or a suspension).
FirstStepDone == started' = started + 1

\* _resolve_template(stage.input_template, context) renders with
\* stages=context.stage_outputs: what it can read is every key of the dict.
VisibleNone(outputs) == {}

Visible(outputs) == DOMAIN outputs

ResolveInput(sid) ==
    /\ resolved' = resolved \cup {sid}
    /\ seen' = [seen EXCEPT ![sid] = Visible(stage_outputs)]

\* `if on_progress: await on_progress(stage.id, status, ...)`: a callback that
\* returns.
Emit(log, sid, status) ==
    IF on_progress THEN Append(log, [stage_id |-> sid, status |-> status]) ELSE log

\* The handler returned: the output is stored and the result is completed.
StageCompleted(sid) ==
    /\ stage_outputs' = Put(stage_outputs, sid, "output")
    /\ stage_results' = Put(stage_results, sid, "completed")
    /\ task' = [task EXCEPT ![sid] = "returned"]
    /\ UNCHANGED required

\* `if stage.required: raise`
ReraisesAlways(req) == TRUE

Reraises(req) == req

\* The except block of _execute_stage: a failed result, and the exception
\* raised again when the stage is required.
StageFailed(sid) ==
    /\ stage_results' = Put(stage_results, sid, "failed")
    /\ \E req \in BOOLEAN :
           /\ required' = [required EXCEPT ![sid] = {req}]
           /\ task' = [task EXCEPT ![sid] = IF Reraises(req) THEN "raised" ELSE "returned"]
    /\ UNCHANGED stage_outputs

\* _execute_stage, the condition is not met: a skipped result, no handler.
StageSkip(sid) ==
    /\ NextToStart(sid)
    /\ \E c \in Conditions :
           /\ Skips(c)
           /\ cond' = [cond EXCEPT ![sid] = c]
    /\ stage_results' = Put(stage_results, sid, "skipped")
    /\ task' = [task EXCEPT ![sid] = "returned"]
    /\ FirstStepDone
    /\ UNCHANGED events
    /\ UNCHANGED <<loadVars, otherVars, timed_out, on_progress, stages, order, on_failure, pc, batch_idx, stage_outputs, result,
                   required, resolved, seen, invoked>>

\* _execute_stage, the stage has no handler (an unknown stage type, no
\* action, an unregistered action): the ValueError is raised before the
\* input template is resolved.
StageNoHandler(sid) ==
    /\ NextToStart(sid)
    /\ \E c \in Conditions :
           /\ ~Skips(c)
           /\ cond' = [cond EXCEPT ![sid] = c]
    /\ StageFailed(sid)
    /\ FirstStepDone
    /\ events' = Emit(Emit(events, sid, "running"), sid, "failed")
    /\ UNCHANGED <<loadVars, otherVars, timed_out, on_progress, stages, order, on_failure, pc, batch_idx, result, resolved, seen, invoked>>

\* _execute_stage with a handler that returns without suspending
\* (skills.validate has no await).
StageRunSyncReturn(sid) ==
    /\ NextToStart(sid)
    /\ \E c \in Conditions :
           /\ ~Skips(c)
           /\ cond' = [cond EXCEPT ![sid] = c]
    /\ ResolveInput(sid)
    /\ invoked' = [invoked EXCEPT ![sid] = @ + 1]
    /\ StageCompleted(sid)
    /\ FirstStepDone
    /\ events' = Emit(Emit(events, sid, "running"), sid, "completed")
    /\ UNCHANGED <<loadVars, otherVars, timed_out, on_progress, stages, order, on_failure, pc, batch_idx, result>>

\* _execute_stage with a handler that raises without suspending (a persona
\* stage whose API key is not set, json.loads of the resolved input).
StageRunSyncRaise(sid) ==
    /\ NextToStart(sid)
    /\ \E c \in Conditions :
           /\ ~Skips(c)
           /\ cond' = [cond EXCEPT ![sid] = c]
    /\ ResolveInput(sid)
    /\ invoked' = [invoked EXCEPT ![sid] = @ + 1]
    /\ StageFailed(sid)
    /\ FirstStepDone
    /\ events' = Emit(Emit(events, sid, "running"), sid, "failed")
    /\ UNCHANGED <<loadVars, otherVars, timed_out, on_progress, stages, order, on_failure, pc, batch_idx, result>>

\* _execute_stage with a handler that suspends (an HTTP call, a subprocess).
StageRunSuspend(sid) ==
    /\ NextToStart(sid)
    /\ \E c \in Conditions :
           /\ ~Skips(c)
           /\ cond' = [cond EXCEPT ![sid] = c]
    /\ ResolveInput(sid)
    /\ invoked' = [invoked EXCEPT ![sid] = @ + 1]
    /\ task' = [task EXCEPT ![sid] = "awaiting"]
    /\ FirstStepDone
    /\ events' = Emit(events, sid, "running")
    /\ UNCHANGED <<loadVars, otherVars, timed_out, on_progress, stages, order, on_failure, pc, batch_idx, stage_outputs, stage_results,
                   result, required>>

\* A task suspended in its handler is resumed only after every task of the
\* batch had its first step: the event loop runs the tasks gather created
\* before any callback scheduled later.
CanResume(sid) ==
    /\ pc = "gather"
    /\ sid \in DOMAIN task
    /\ task[sid] = "awaiting"
    /\ started = Len(order.batches[batch_idx])

\* The suspended handler returns.
StageResumeReturn(sid) ==
    /\ CanResume(sid)
    /\ StageCompleted(sid)
    /\ events' = Emit(events, sid, "completed")
    /\ UNCHANGED <<loadVars, otherVars, timed_out, on_progress, stages, order, on_failure, pc, batch_idx, started, result, cond,
                   resolved, seen, invoked>>

\* The suspended handler raises.
StageResumeRaise(sid) ==
    /\ CanResume(sid)
    /\ StageFailed(sid)
    /\ events' = Emit(events, sid, "failed")
    /\ UNCHANGED <<loadVars, otherVars, timed_out, on_progress, stages, order, on_failure, pc, batch_idx, started, result, cond,
                   resolved, seen, invoked>>

\* gather without return_exceptions returns at the first exception.
GatherDoneAtFirstException ==
    /\ pc = "gather"
    /\ started = Len(order.batches[batch_idx])
    /\ \/ \A sid \in Range(order.batches[batch_idx]) : task[sid] \in {"returned", "raised"}
       \/ \E sid \in Range(order.batches[batch_idx]) : task[sid] = "raised"

\* gather(*tasks, return_exceptions=True) returns when every task is done.
GatherDone ==
    /\ pc = "gather"
    /\ \A sid \in Range(order.batches[batch_idx]) : task[sid] \in {"returned", "raised"}

\* The positions of the batch whose task raised.
RaisedAt(batch) == {i \in DOMAIN batch : task[batch[i]] = "raised"}

\* The loop over the results of gather: every exception becomes a failed
\* StageResult; with on_failure: stop the first one is raised again, and the
\* except block of execute returns the failed ExecutionResult.
CheckBatch ==
    /\ GatherDone
    /\ LET batch == order.batches[batch_idx]
           raisedAt == RaisedAt(batch)
       IN  IF raisedAt # {} /\ StopOnFailure(on_failure)
           THEN LET first == CHOOSE i \in raisedAt : \A j \in raisedAt : i <= j
                IN  /\ stage_results' = Put(stage_results, batch[first], "failed")
                    /\ ExecuteExcept("stage failed")
           ELSE /\ stage_results' =
                       [sid \in DOMAIN stage_results \cup {batch[i] : i \in raisedAt} |->
                           IF sid \in {batch[i] : i \in raisedAt} THEN "failed"
                           ELSE stage_results[sid]]
                /\ pc' = "loop"
                /\ result' = result
    /\ UNCHANGED events
    /\ UNCHANGED <<loadVars, otherVars, timed_out, on_progress, stages, order, on_failure, batch_idx, started, task, stage_outputs,
                   cond, required, resolved, seen, invoked>>

\* After the last batch: on_complete hooks, the aggregated outputs and the
\* successful ExecutionResult.
ExecuteReturn ==
    /\ pc = "loop"
    /\ batch_idx = Len(order.batches)
    /\ pc' = "returned"
    /\ result' = [returned |-> TRUE, success |-> TRUE, error |-> Null,
                  stage_results |-> stage_results]
    /\ UNCHANGED events
    /\ UNCHANGED <<loadVars, otherVars, timed_out, on_progress, stages, order, on_failure, batch_idx, started, task, stage_outputs,
                   stage_results, cond, required, resolved, seen, invoked>>

-----------------------------------------------------------------------------
(* Spec: PipelineExecutor.execute on a loaded definition *)

\* The values of config.on_failure.
FailurePolicies == {"stop", "continue"}

\* The stages of S listed no later than sid.
ListedUpTo(S, sid) == {t \in S : PoolIndex(t) <= PoolIndex(sid)}

\* A definition of at most MaxStages stages, named by the first IDs of the
\* pool. A stage depends on stages listed before it (every acyclic graph, up
\* to the names of its stages) or on itself (the cyclic definitions).
Init ==
    /\ \E n \in 0..MaxStages :
           LET S == {IdPool[i] : i \in 1..n}
           IN  \E f \in [S -> SUBSET S] :
                   /\ \A sid \in S : f[sid] \subseteq ListedUpTo(S, sid)
                   /\ stages = SchedDefinition(ListIds(S), f)
    /\ order = NoOrder
    /\ LoadIdle
    /\ TimersIdle
    /\ OthersIdle
    /\ pc = "idle"
    /\ on_failure \in FailurePolicies
    /\ batch_idx = 0
    /\ started = 0
    /\ task = EmptyDict
    /\ stage_outputs = EmptyDict
    /\ stage_results = EmptyDict
    /\ result = NoResult
    /\ cond = EmptyDict
    /\ required = EmptyDict
    /\ resolved = {}
    /\ seen = EmptyDict
    /\ invoked = EmptyDict
    /\ NoCallback

Next ==
    \/ ExecuteBegin
    \/ GatherBatch
    \/ \E sid \in StageIds : StageSkip(sid)
    \/ \E sid \in StageIds : StageNoHandler(sid)
    \/ \E sid \in StageIds : StageRunSyncReturn(sid)
    \/ \E sid \in StageIds : StageRunSyncRaise(sid)
    \/ \E sid \in StageIds : StageRunSuspend(sid)
    \/ \E sid \in StageIds : StageResumeReturn(sid)
    \/ \E sid \in StageIds : StageResumeRaise(sid)
    \/ CheckBatch
    \/ ExecuteReturn

Spec == Init /\ [][Next]_vars

-----------------------------------------------------------------------------
(* SpecTimed: execute while the clock runs past a stage's timeout_seconds *)

\* stage.timeout_seconds elapses while the stage's handler is awaited.
\* _execute_stage awaits the handler directly (no wait_for, no timer reads
\* stage.timeout_seconds), so nothing but the clock changes.
TimeoutElapses(sid) ==
    /\ pc = "gather"
    /\ sid \in DOMAIN task
    /\ task[sid] = "awaiting"
    /\ sid \notin timed_out
    /\ timed_out' = timed_out \cup {sid}
    /\ UNCHANGED <<loadVars, otherVars, stages, order, execVars>>

MaxTimedStages == 2

\* execute() is called on a definition of at most MaxTimedStages stages.
InitTimed ==
    /\ \E n \in 0..MaxTimedStages :
           LET S == {IdPool[i] : i \in 1..n}
           IN  \E f \in [S -> SUBSET S] :
                   /\ \A sid \in S : f[sid] \subseteq ListedUpTo(S, sid)
                   /\ stages = SchedDefinition(ListIds(S), f)
    /\ order = NoOrder
    /\ LoadIdle
    /\ TimersIdle
    /\ OthersIdle
    /\ pc = "idle"
    /\ on_failure \in FailurePolicies
    /\ batch_idx = 0
    /\ started = 0
    /\ task = EmptyDict
    /\ stage_outputs = EmptyDict
    /\ stage_results = EmptyDict
    /\ result = NoResult
    /\ cond = EmptyDict
    /\ required = EmptyDict
    /\ resolved = {}
    /\ seen = EmptyDict
    /\ invoked = EmptyDict
    /\ NoCallback

NextTimed ==
    \/ Next
    \/ \E sid \in StageIds : TimeoutElapses(sid)

SpecTimed == InitTimed /\ [][NextTimed]_vars

-----------------------------------------------------------------------------
(* SpecProgress: execute() with an on_progress callback *)

MaxProgressStages == 2

\* A definition of at most MaxProgressStages stages, and a callback.
InitProgress ==
    /\ \E n \in 0..MaxProgressStages :
           LET S == {IdPool[i] : i \in 1..n}
           IN  \E f \in [S -> SUBSET S] :
                   /\ \A sid \in S : f[sid] \subseteq ListedUpTo(S, sid)
                   /\ stages = SchedDefinition(ListIds(S), f)
    /\ order = NoOrder
    /\ LoadIdle
    /\ TimersIdle
    /\ OthersIdle
    /\ pc = "idle"
    /\ on_failure \in FailurePolicies
    /\ batch_idx = 0
    /\ started = 0
    /\ task = EmptyDict
    /\ stage_outputs = EmptyDict
    /\ stage_results = EmptyDict
    /\ result = NoResult
    /\ cond = EmptyDict
    /\ required = EmptyDict
    /\ resolved = {}
    /\ seen = EmptyDict
    /\ invoked = EmptyDict
    /\ on_progress = TRUE
    /\ events = <<>>

\* _execute_stage, lines 274-292: the handler returned, the output and the
\* completed StageResult are stored, and `await on_progress(stage.id,
\* StageStatus.COMPLETED, output)`, still inside the try block, suspends in
\* the callback.
StageNotifying(sid) ==
    /\ on_progress
    /\ stage_outputs' = Put(stage_outputs, sid, "output")
    /\ stage_results' = Put(stage_results, sid, "completed")
    /\ task' = [task EXCEPT ![sid] = "notifying"]
    /\ UNCHANGED required

\* A handler without await returns and the callback suspends.
StageRunSyncNotify(sid) ==
    /\ NextToStart(sid)
    /\ \E c \in Conditions :
           /\ ~Skips(c)
           /\ cond' = [cond EXCEPT ![sid] = c]
    /\ ResolveInput(sid)
    /\ invoked' = [invoked EXCEPT ![sid] = @ + 1]
    /\ StageNotifying(sid)
    /\ FirstStepDone
    /\ events' = Emit(Emit(events, sid, "running"), sid, "completed")
    /\ UNCHANGED <<loadVars, otherVars, timed_out, on_progress, stages, order, on_failure, pc, batch_idx, result>>

\* The suspended handler returns and the callback suspends.
StageResumeNotify(sid) ==
    /\ CanResume(sid)
    /\ StageNotifying(sid)
    /\ events' = Emit(events, sid, "completed")
    /\ UNCHANGED <<loadVars, otherVars, timed_out, on_progress, stages, order, on_failure, pc, batch_idx, started, result, cond,
                   resolved, seen, invoked>>

\* The task is suspended in on_progress(COMPLETED).
InCallback(sid) ==
    /\ pc = "gather"
    /\ sid \in DOMAIN task
    /\ task[sid] = "notifying"
    /\ started = Len(order.batches[batch_idx])

\* The callback returns; the on_stage_complete hooks only resolve log
\* templates, and _execute_stage returns the completed result.
CallbackReturns(sid) ==
    /\ InCallback(sid)
    /\ task' = [task EXCEPT ![sid] = "returned"]
    /\ UNCHANGED events
    /\ UNCHANGED <<loadVars, otherVars, timed_out, on_progress, stages, order, on_failure, pc, batch_idx, started, result, cond,
                   resolved, seen, invoked, stage_outputs, stage_results, required>>

\* The callback raises: `except Exception` (lines 304-325) stores a failed
\* StageResult under the stage's id, calls on_progress(FAILED) and raises
\* again when the stage is required. context.stage_outputs is not touched.
CallbackRaises(sid) ==
    /\ InCallback(sid)
    /\ StageFailed(sid)
    /\ events' = Emit(events, sid, "failed")
    /\ UNCHANGED <<loadVars, otherVars, timed_out, on_progress, stages, order, on_failure, pc, batch_idx, started, result, cond,
                   resolved, seen, invoked>>

NextProgress ==
    \/ Next
    \/ \E sid \in StageIds : StageRunSyncNotify(sid)
    \/ \E sid \in StageIds : StageResumeNotify(sid)
    \/ \E sid \in StageIds : CallbackReturns(sid)
    \/ \E sid \in StageIds : CallbackRaises(sid)

SpecProgress == InitProgress /\ [][NextProgress]_vars

-----------------------------------------------------------------------------
(* SpecSched: get_execution_order on a definition *)

\* The definitions of at most MaxStages stages with pairwise distinct IDs
\* (the validator's DUPLICATE_STAGE_ID check), listed in pool order; a
\* depends_on may name any ID of the pool, so cyclic definitions and
\* definitions naming a missing stage are among them.
InitSched ==
    /\ ExecIdle
    /\ LoadIdle
    /\ TimersIdle
    /\ OthersIdle
    /\ \E S \in SUBSET StageIds : \E f \in [S -> SUBSET StageIds] :
           stages = SchedDefinition(ListIds(S), f)
    /\ order = NoOrder

\* get_execution_order(): the sort, and one of the lists it can return.
GetExecutionOrder ==
    /\ ~order.called
    /\ LET r == TopologicalSort(stages)
       IN  IF r.raised
           THEN order' = [called |-> TRUE, raised |-> TRUE, batches |-> <<>>]
           ELSE \E bl \in BatchLists(r.batches) :
                    order' = [called |-> TRUE, raised |-> FALSE, batches |-> bl]
    /\ UNCHANGED <<loadVars, otherVars, timed_out, stages, execVars>>

NextSched == GetExecutionOrder

SpecSched == InitSched /\ [][NextSched]_vars

-----------------------------------------------------------------------------
(* SpecLoad: the trigger and run routes, from the YAML source to the call of
   the scheduler *)

MaxSourceStages == 2

\* stage.get("id") of a stage mapping without the key.
Absent == "<absent>"

\* The values of `id` and the IDs a depends_on names in a source.
SourceIds == {"", IdPool[1], IdPool[2]}

\* `if stage_id:`
Truthy(stage_id) == stage_id \notin {Absent, ""}

\* The stage mappings of a source: `name`, the stage type and the templates
\* are well-formed, `id` and `depends_on` are any.
SourceStages == [id : SourceIds \cup {Absent}, depends_on : SUBSET SourceIds]

\* _validate_stages: the codes of the errors it appends.
ValidateStages(src) ==
    IF src = <<>> THEN {"MISSING_REQUIRED_FIELD"}
    ELSE {"MISSING_REQUIRED_FIELD" : i \in {j \in DOMAIN src : src[j].id = Absent}}
         \cup {"DUPLICATE_STAGE_ID" :
                  i \in {j \in DOMAIN src :
                            \E k \in 1..(j - 1) : Truthy(src[k].id) /\ src[k].id = src[j].id}}

\* stage_ids of _validate_dependencies
TruthyIds(src) == {src[i].id : i \in {j \in DOMAIN src : Truthy(src[j].id)}}

\* The adjacency list: the stages without a truthy ID are passed over, and so
\* are the dependencies that are no stage_id.
Graph(src) ==
    [sid \in TruthyIds(src) |->
        UNION {src[i].depends_on \cap TruthyIds(src) : i \in {j \in DOMAIN src : src[j].id = sid}}]

MissingRefs(src) ==
    {"MISSING_STAGE_REF" :
        i \in {j \in DOMAIN src : Truthy(src[j].id) /\ ~(src[j].depends_on \subseteq TruthyIds(src))}}

\* The keys of graph in the order of the dict.
RECURSIVE GraphKeys(_, _)
GraphKeys(src, known) ==
    IF src = <<>> THEN <<>>
    ELSE IF Truthy(Head(src).id) /\ Head(src).id \notin known
         THEN <<Head(src).id>> \o GraphKeys(Tail(src), known \cup {Head(src).id})
         ELSE GraphKeys(Tail(src), known)

\* has_cycle(node, path) and its loop over the neighbors of node, which are
\* taken in the order iteration gives. dfs holds visited, rec_stack, the
\* errors appended and the value returned.
RECURSIVE HasCycleDfs(_, _, _, _)
RECURSIVE NeighborLoop(_, _, _, _, _)
HasCycleDfs(graph, iteration, node, dfs) ==
    NeighborLoop(graph, iteration, node,
                 SelectSeq(iteration, LAMBDA x : x \in graph[node]),
                 [dfs EXCEPT !.visited = @ \cup {node}, !.rec_stack = @ \cup {node}])

NeighborLoop(graph, iteration, node, neighbors, dfs) ==
    IF neighbors = <<>>
    THEN [dfs EXCEPT !.rec_stack = @ \ {node}, !.returned = FALSE]
    ELSE LET neighbor == Head(neighbors)
         IN  IF neighbor \notin dfs.visited
             THEN LET inner == HasCycleDfs(graph, iteration, neighbor, dfs)
                  IN  IF inner.returned THEN inner
                      ELSE NeighborLoop(graph, iteration, node, Tail(neighbors), inner)
             ELSE IF neighbor \in dfs.rec_stack
                  THEN [dfs EXCEPT !.errors = @ \cup {"CIRCULAR_DEPENDENCY"},
                                   !.returned = TRUE]
                  ELSE NeighborLoop(graph, iteration, node, Tail(neighbors), dfs)

\* `for stage_id in graph: if stage_id not in visited: has_cycle(stage_id, [])`
RECURSIVE CycleCheck(_, _, _, _)
CycleCheck(graph, iteration, keys, dfs) ==
    IF keys = <<>> THEN dfs
    ELSE IF Head(keys) \notin dfs.visited
         THEN CycleCheck(graph, iteration, Tail(keys),
                         HasCycleDfs(graph, iteration, Head(keys), dfs))
         ELSE CycleCheck(graph, iteration, Tail(keys), dfs)

\* _validate_dependencies: the codes of the errors it appends.
ValidateDependencies(src, iteration) ==
    MissingRefs(src)
    \cup CycleCheck(Graph(src), iteration, GraphKeys(src, {}),
                    [visited |-> {}, rec_stack |-> {}, errors |-> {}, returned |-> FALSE]).errors

\* validate: credentials are probed when asked for and no error was found.
Validate(src, validate_credentials, iteration, credentials_valid) ==
    LET found == ValidateStages(src) \cup ValidateDependencies(src, iteration)
        errors == IF validate_credentials /\ found = {} /\ ~credentials_valid
                  THEN {"INVALID_CREDENTIAL"} ELSE found
    IN  [called |-> TRUE, valid |-> errors = {}, errors |-> errors]

\* _parse_stages
ParseStages(src) ==
    [i \in DOMAIN src |->
        SchedStage(IF src[i].id = Absent THEN "" ELSE src[i].id, src[i].depends_on)]

\* load_from_yaml(validate=True): the ValueError becomes the 400 response of
\* the route, otherwise the definition is built and execute() is called next.
LoadFromYaml(validate_credentials) ==
    \E iteration \in Orderings(TruthyIds(source)) : \E credentials_valid \in BOOLEAN :
        LET v == Validate(source, validate_credentials, iteration, credentials_valid)
        IN  /\ validation' = v
            /\ IF v.valid
               THEN stages' = ParseStages(source) /\ pc' = "idle"
               ELSE stages' = stages /\ pc' = "rejected"

\* POST /yaml/{pipeline_name}/trigger
TriggerYamlPipeline ==
    /\ pc = "request"
    /\ route' = "trigger"
    /\ \E exists \in BOOLEAN : \E validate_credentials \in BOOLEAN :
           IF exists
           THEN LoadFromYaml(validate_credentials)
           ELSE pc' = "not_found" /\ UNCHANGED <<stages, validation>>
    /\ UNCHANGED <<otherVars, timed_out, on_progress, events, source, order, on_failure, batch_idx, started, task, stage_outputs,
                   stage_results, result, cond, required, resolved, seen, invoked>>

\* POST /yaml/run
RunYamlPipeline ==
    /\ pc = "request"
    /\ route' = "run"
    /\ \E validate_credentials \in BOOLEAN : LoadFromYaml(validate_credentials)
    /\ UNCHANGED <<otherVars, timed_out, on_progress, events, source, order, on_failure, batch_idx, started, task, stage_outputs,
                   stage_results, result, cond, required, resolved, seen, invoked>>

\* A request for a source of at most MaxSourceStages stages.
InitLoad ==
    /\ \E n \in 0..MaxSourceStages : source \in [1..n -> SourceStages]
    /\ route = Null
    /\ validation = NoValidation
    /\ TimersIdle
    /\ OthersIdle
    /\ stages = <<>>
    /\ order = NoOrder
    /\ pc = "request"
    /\ on_failure \in FailurePolicies
    /\ batch_idx = 0
    /\ started = 0
    /\ task = EmptyDict
    /\ stage_outputs = EmptyDict
    /\ stage_results = EmptyDict
    /\ result = NoResult
    /\ cond = EmptyDict
    /\ required = EmptyDict
    /\ resolved = {}
    /\ seen = EmptyDict
    /\ invoked = EmptyDict
    /\ NoCallback

NextLoad ==
    \/ TriggerYamlPipeline
    \/ RunYamlPipeline
    \/ ExecuteBegin

SpecLoad == InitLoad /\ [][NextLoad]_vars

-----------------------------------------------------------------------------
(* SpecService: the task-graph variant, PipelineService on one Pipeline row *)

MaxTasks == 3

\* The variables of the YAML engine, which the task-graph variant leaves alone.
yamlVars == <<engineVars, auxVars>>

MaxParallel == 2

MaxRetries == 1

\* PIPELINE_TRANSITIONS
PipelineTransitions ==
    [draft     |-> {"pending", "cancelled"},
     pending   |-> {"running", "cancelled"},
     running   |-> {"paused", "completed", "failed", "cancelled"},
     paused    |-> {"running", "cancelled"},
     completed |-> {},
     failed    |-> {"pending"},
     cancelled |-> {}]

\* Pipeline.can_transition_to
CanTransitionTo(state, new_state) == new_state \in PipelineTransitions[state]

\* transition_state without the can_transition_to check.
TransitionStateUnchecked(state, new_state) == new_state

\* PipelineService.transition_state: the state after the call.
TransitionState(state, new_state) ==
    IF CanTransitionTo(state, new_state) THEN new_state ELSE state

\* TASK_TRANSITIONS
TaskTransitions ==
    [pending   |-> {"queued", "cancelled"},
     queued    |-> {"running", "cancelled"},
     running   |-> {"paused", "completed", "failed", "cancelled"},
     paused    |-> {"running", "cancelled"},
     completed |-> {},
     failed    |-> {"queued"},
     cancelled |-> {}]

\* TaskService.transition_state: the state after the call.
TaskTransitionState(state, new_state) ==
    IF new_state \in TaskTransitions[state] THEN new_state ELSE state

\* TaskService.execute_task on a task of type LOCAL (run_task creates every
\* task with the default type): the state of the task it returns.
\* _execute_local does not raise.
ExecuteTask(state) ==
    LET queued == IF state # "pending" THEN TaskTransitionState(state, "queued") ELSE state
        running == TaskTransitionState(queued, "running")
    IN  TaskTransitionState(running, "completed")

\* Pipeline.update_progress: the new progress_percent (whole percents).
UpdateProgress(p) ==
    IF p.total_tasks > 0
    THEN ((p.completed_tasks + p.failed_tasks) * 100) \div p.total_tasks
    ELSE p.progress_percent

\* _build_execution_order: the while loop. A pass that finds no task ends
\* the loop with the batches built so far.
RECURSIVE BuildLoop(_, _, _, _)
BuildLoop(tasks, dependencies, completed, batches) ==
    IF Cardinality(completed) >= Len(tasks) THEN batches
    ELSE LET batch == SelectSeq(tasks, LAMBDA t : t \notin completed
                                                 /\ dependencies[t] \subseteq completed)
         IN  IF batch = <<>> THEN batches
             ELSE BuildLoop(tasks, dependencies, completed \cup Range(batch),
                            Append(batches, batch))

BuildExecutionOrder(p) ==
    IF p.tasks = <<>> THEN <<>> ELSE BuildLoop(p.tasks, p.dependencies, {}, <<>>)

\* The tasks inside `async with semaphore`.
InFlight == {t \in DOMAIN run_task : run_task[t] = "in_flight"}

\* asyncio.Semaphore(pipeline.max_parallel): a permit is free.
PermitFreeAlways(limit) == TRUE

PermitFree(limit) == Cardinality(InFlight) < limit

\* `if pipeline.state != PipelineState.RUNNING: break`
KeepsGoingAlways(state) == TRUE

KeepsGoing(state) == state = "running"

\* `if pipeline.state != PipelineState.FAILED: return None`
RetriesAlways(state) == TRUE

Retries(state) == state = "failed"

\* The rest of execute_pipeline after the loop: the final state, and the
\* finally block.
Finish(p) ==
    LET final == IF p.state = "running"
                 THEN IF p.failed_tasks > 0
                      THEN [p EXCEPT !.state = TransitionState(p.state, "failed")]
                      ELSE [p EXCEPT !.state = TransitionState(p.state, "completed")]
                 ELSE p
    IN  [final EXCEPT !.progress_percent = UpdateProgress(final)]

\* execute_pipeline is called on the new pipeline: start_pipeline, to its
\* first await. The DRAFT pipeline becomes PENDING first.
ExecutePipeline ==
    /\ pipeline.state = "draft"
    /\ exe.pc = "idle"
    /\ pipeline' = [pipeline EXCEPT !.state = TransitionState(@, "pending")]
    /\ exe' = [exe EXCEPT !.pc = "starting"]
    /\ UNCHANGED <<run_task, task_state, runs, retry_result>>
    /\ UNCHANGED yamlVars

\* start_pipeline: the transition to RUNNING.
StartPipeline ==
    /\ exe.pc = "starting"
    /\ pipeline' = [pipeline EXCEPT !.state = TransitionState(@, "running")]
    /\ exe' = [exe EXCEPT !.pc = "started"]
    /\ UNCHANGED <<run_task, task_state, runs, retry_result>>
    /\ UNCHANGED yamlVars

\* execute_pipeline after start_pipeline: the execution order is built.
BuildOrder ==
    /\ exe.pc = "started"
    /\ exe' = [pc |-> "loop", order |-> BuildExecutionOrder(pipeline), batch |-> 0]
    /\ run_task' = [t \in Range(pipeline.tasks) |-> "none"]
    /\ task_state' = [t \in Range(pipeline.tasks) |-> "none"]
    /\ UNCHANGED <<pipeline, runs, retry_result>>
    /\ UNCHANGED yamlVars

\* The top of the for loop: the next batch is handed to gather, unless the
\* batches are exhausted or the pipeline is no longer RUNNING.
NextBatch ==
    /\ exe.pc = "loop"
    /\ exe.batch < Len(exe.order)
    /\ KeepsGoing(pipeline.state)
    /\ exe' = [exe EXCEPT !.pc = "batch", !.batch = @ + 1]
    /\ run_task' = [t \in DOMAIN run_task |->
                       IF t \in Range(exe.order[exe.batch + 1]) THEN "waiting" ELSE "none"]
    /\ UNCHANGED <<pipeline, task_state, runs, retry_result>>
    /\ UNCHANGED yamlVars

\* The loop ends (no batch is left, or the break of the state check), the
\* pipeline gets its final state and execute_pipeline returns.
FinishPipeline ==
    /\ exe.pc = "loop"
    /\ exe.batch = Len(exe.order) \/ ~KeepsGoing(pipeline.state)
    /\ pipeline' = Finish(pipeline)
    /\ exe' = [exe EXCEPT !.pc = "idle"]
    /\ UNCHANGED <<run_task, task_state, runs, retry_result>>
    /\ UNCHANGED yamlVars

\* run_task takes a permit of the semaphore and creates its Task.
AcquireAndCreate(t) ==
    /\ exe.pc = "batch"
    /\ t \in DOMAIN run_task
    /\ run_task[t] = "waiting"
    /\ PermitFree(pipeline.max_parallel)
    /\ run_task' = [run_task EXCEPT ![t] = "in_flight"]
    /\ task_state' = [task_state EXCEPT ![t] = "pending"]
    /\ UNCHANGED <<pipeline, exe, runs, retry_result>>
    /\ UNCHANGED yamlVars

\* run_task: execute_task returns, the counters are updated and the permit
\* is given back.
ExecuteAndCount(t) ==
    /\ exe.pc = "batch"
    /\ t \in DOMAIN run_task
    /\ run_task[t] = "in_flight"
    /\ LET state == ExecuteTask(task_state[t])
           counted == IF state = "completed"
                      THEN [pipeline EXCEPT !.completed_tasks = @ + 1]
                      ELSE [pipeline EXCEPT !.failed_tasks = @ + 1]
       IN  /\ task_state' = [task_state EXCEPT ![t] = state]
           /\ pipeline' = [counted EXCEPT !.progress_percent = UpdateProgress(counted)]
    /\ run_task' = [run_task EXCEPT ![t] = "done"]
    /\ runs' = [runs EXCEPT ![t] = @ + 1]
    /\ UNCHANGED <<exe, retry_result>>
    /\ UNCHANGED yamlVars

\* gather returned: the check for failures after the batch. The transition
\* to FAILED is followed by the break and the return of execute_pipeline.
BatchDone ==
    /\ exe.pc = "batch"
    /\ \A t \in Range(exe.order[exe.batch]) : run_task[t] = "done"
    /\ IF pipeline.stop_on_failure /\ pipeline.failed_tasks > 0
       THEN /\ pipeline' = Finish([pipeline EXCEPT !.state = TransitionState(@, "failed")])
            /\ exe' = [exe EXCEPT !.pc = "idle"]
       ELSE /\ pipeline' = pipeline
            /\ exe' = [exe EXCEPT !.pc = "loop"]
    /\ UNCHANGED <<run_task, task_state, runs, retry_result>>
    /\ UNCHANGED yamlVars

\* pause_pipeline
PausePipeline ==
    /\ pipeline.state = "running"
    /\ pipeline' = [pipeline EXCEPT !.state = TransitionState(@, "paused")]
    /\ UNCHANGED <<exe, run_task, task_state, runs, retry_result>>
    /\ UNCHANGED yamlVars

\* resume_pipeline
ResumePipeline ==
    /\ pipeline.state = "paused"
    /\ pipeline' = [pipeline EXCEPT !.state = TransitionState(@, "running")]
    /\ UNCHANGED <<exe, run_task, task_state, runs, retry_result>>
    /\ UNCHANGED yamlVars

\* cancel_pipeline: the tasks in state RUNNING are cancelled (cancel_task
\* changes the state of the Task only), then the pipeline.
CancelPipeline ==
    /\ pipeline.state \notin {Null, "completed", "cancelled"}
    /\ task_state' = [t \in DOMAIN task_state |->
                         IF task_state[t] = "running"
                         THEN TaskTransitionState("running", "cancelled")
                         ELSE task_state[t]]
    /\ pipeline' = [pipeline EXCEPT !.state = TransitionState(@, "cancelled")]
    /\ UNCHANGED <<exe, run_task, runs, retry_result>>
    /\ UNCHANGED yamlVars

\* retry_pipeline on a FAILED pipeline: the reset, the transition to PENDING
\* and the call of execute_pipeline, to its first await.
RetryPipeline ==
    /\ pipeline.state # Null
    /\ exe.pc = "idle"
    /\ Retries(pipeline.state)
    /\ retry_result.calls < MaxRetries
    /\ pipeline' = [pipeline EXCEPT !.completed_tasks = 0,
                                    !.failed_tasks = 0,
                                    !.progress_percent = 0,
                                    !.error = Null,
                                    !.state = TransitionState(@, "pending")]
    /\ exe' = [exe EXCEPT !.pc = "starting"]
    /\ retry_result' = [calls |-> retry_result.calls + 1, returned |-> "pipeline"]
    /\ UNCHANGED <<run_task, task_state, runs>>
    /\ UNCHANGED yamlVars

\* retry_pipeline on a pipeline that is not FAILED returns None.
RetryRefused ==
    /\ pipeline.state # Null
    /\ ~Retries(pipeline.state)
    /\ retry_result.returned # "None"
    /\ retry_result' = [retry_result EXCEPT !.returned = "None"]
    /\ UNCHANGED <<pipeline, exe, run_task, task_state, runs>>
    /\ UNCHANGED yamlVars

TaskNames == {IdPool[i] : i \in 1..MaxTasks}

\* create_pipeline: a DRAFT pipeline of at most MaxTasks tasks; a task
\* depends on tasks listed before it, or on itself.
InitService ==
    /\ \E n \in 0..MaxTasks : \E limit \in 1..MaxParallel : \E stop \in BOOLEAN :
           LET S == {IdPool[i] : i \in 1..n}
           IN  \E f \in [S -> SUBSET S] :
                   /\ \A t \in S : f[t] \subseteq ListedUpTo(S, t)
                   /\ pipeline = [tasks |-> ListIds(S), dependencies |-> f,
                                  max_parallel |-> limit, stop_on_failure |-> stop,
                                  total_tasks |-> n, state |-> "draft",
                                  completed_tasks |-> 0, failed_tasks |-> 0,
                                  progress_percent |-> 0, error |-> Null]
                   /\ runs = [t \in S |-> 0]
    /\ exe = NoExecution
    /\ run_task = EmptyDict
    /\ task_state = EmptyDict
    /\ retry_result = NoRetry
    /\ ExecIdle
    /\ LoadIdle
    /\ TimersIdle
    /\ AuxIdle
    /\ stages = <<>>
    /\ order = NoOrder

NextService ==
    \/ ExecutePipeline
    \/ StartPipeline
    \/ BuildOrder
    \/ NextBatch
    \/ FinishPipeline
    \/ \E t \in TaskNames : AcquireAndCreate(t)
    \/ \E t \in TaskNames : ExecuteAndCount(t)
    \/ BatchDone
    \/ PausePipeline
    \/ ResumePipeline
    \/ CancelPipeline
    \/ RetryPipeline
    \/ RetryRefused

SpecService == InitService /\ [][NextService]_vars

-----------------------------------------------------------------------------
(* SpecRequests: the operations of the task-graph variant as the routes    *)
(* call them, in any state of the pipeline                                 *)

MaxRequestTasks == 2

MaxRuns == 2

\* start_pipeline as POST /{pipeline_id}/start calls it, to its first
\* await: the DRAFT pipeline becomes PENDING. No execution follows.
StartRequest ==
    /\ pipeline.state # Null
    /\ exe.pc = "idle"
    /\ pipeline' = [pipeline EXCEPT !.state = IF @ = "draft"
                                              THEN TransitionState(@, "pending") ELSE @]
    /\ exe' = [exe EXCEPT !.pc = "start_request"]
    /\ UNCHANGED <<run_task, task_state, runs, retry_result>>
    /\ UNCHANGED yamlVars

\* start_pipeline of the route: the transition to RUNNING, and the return.
StartRequestRuns ==
    /\ exe.pc = "start_request"
    /\ pipeline' = [pipeline EXCEPT !.state = TransitionState(@, "running")]
    /\ exe' = [exe EXCEPT !.pc = "idle"]
    /\ UNCHANGED <<run_task, task_state, runs, retry_result>>
    /\ UNCHANGED yamlVars

\* execute_pipeline as POST /{pipeline_id}/execute calls it on a pipeline
\* that is not DRAFT any more: start_pipeline skips the transition to
\* PENDING. No task has run MaxRuns times yet.
ExecuteRequest ==
    /\ pipeline.state \notin {Null, "draft"}
    /\ exe.pc = "idle"
    /\ \A t \in DOMAIN runs : runs[t] < MaxRuns
    /\ exe' = [exe EXCEPT !.pc = "starting"]
    /\ UNCHANGED <<pipeline, run_task, task_state, runs, retry_result>>
    /\ UNCHANGED yamlVars

\* create_pipeline: a DRAFT pipeline of at most MaxRequestTasks tasks.
InitRequests ==
    /\ \E n \in 0..MaxRequestTasks : \E limit \in 1..MaxParallel : \E stop \in BOOLEAN :
           LET S == {IdPool[i] : i \in 1..n}
           IN  \E f \in [S -> SUBSET S] :
                   /\ \A t \in S : f[t] \subseteq ListedUpTo(S, t)
                   /\ pipeline = [tasks |-> ListIds(S), dependencies |-> f,
                                  max_parallel |-> limit, stop_on_failure |-> stop,
                                  total_tasks |-> n, state |-> "draft",
                                  completed_tasks |-> 0, failed_tasks |-> 0,
                                  progress_percent |-> 0, error |-> Null]
                   /\ runs = [t \in S |-> 0]
    /\ exe = NoExecution
    /\ run_task = EmptyDict
    /\ task_state = EmptyDict
    /\ retry_result = NoRetry
    /\ ExecIdle
    /\ LoadIdle
    /\ TimersIdle
    /\ AuxIdle
    /\ stages = <<>>
    /\ order = NoOrder

NextRequests ==
    \/ NextService
    \/ StartRequest
    \/ StartRequestRuns
    \/ ExecuteRequest

SpecRequests == InitRequests /\ [][NextRequests]_vars

-----------------------------------------------------------------------------
(* SpecTermination: execute_pipeline for every max_parallel create_pipeline *)
(* accepts and asyncio.Semaphore takes, under the event loop's fairness     *)

\* create_pipeline stores max_parallel as given: 0 is accepted, and
\* asyncio.Semaphore(0) is a semaphore without a permit.
InitTermination ==
    /\ \E n \in 0..MaxRequestTasks : \E limit \in 0..MaxParallel : \E stop \in BOOLEAN :
           LET S == {IdPool[i] : i \in 1..n}
           IN  \E f \in [S -> SUBSET S] :
                   /\ \A t \in S : f[t] \subseteq ListedUpTo(S, t)
                   /\ pipeline = [tasks |-> ListIds(S), dependencies |-> f,
                                  max_parallel |-> limit, stop_on_failure |-> stop,
                                  total_tasks |-> n, state |-> "draft",
                                  completed_tasks |-> 0, failed_tasks |-> 0,
                                  progress_percent |-> 0, error |-> Null]
                   /\ runs = [t \in S |-> 0]
    /\ exe = NoExecution
    /\ run_task = EmptyDict
    /\ task_state = EmptyDict
    /\ retry_result = NoRetry
    /\ ExecIdle
    /\ LoadIdle
    /\ TimersIdle
    /\ AuxIdle
    /\ stages = <<>>
    /\ order = NoOrder

\* A step of the execute_pipeline coroutine or of a run_task coroutine of
\* its batch.
ExecutionStep ==
    \/ StartPipeline
    \/ BuildOrder
    \/ NextBatch
    \/ FinishPipeline
    \/ \E t \in TaskNames : AcquireAndCreate(t)
    \/ \E t \in TaskNames : ExecuteAndCount(t)
    \/ BatchDone

\* The event loop runs a coroutine that can go on: none of them waits for
\* anything but the semaphore and the end of the batch.
SpecTermination == InitTermination /\ [][NextService]_vars /\ WF_vars(ExecutionStep)

-----------------------------------------------------------------------------
(* SpecCreds: the credentials validate requires and the adapters need *)

MaxCredStages == 2

\* A text is the sequence of its fragments.
\* The key is missing from the mapping.
NoText == <<Absent>>

\* str.lower on a fragment.
LowerFragment(fragment) ==
    CASE fragment = "Gemini" -> "gemini"
      [] fragment = "Vision" -> "vision"
      [] OTHER -> fragment

\* `word in text.lower()`
ContainsLower(text, word) == \E i \in DOMAIN text : LowerFragment(text[i]) = word

\* text.startswith(prefix)
StartsWith(text, prefix) == text # <<>> /\ text[1] = prefix

\* dict.get(key, default)
GetOr(value, default) == IF value = NoText THEN default ELSE value

\* The values of config.model in a document.
ModelNames ==
    {<<"gemini", "-2.5-flash">>, <<"Gemini", "-Pro">>, <<"claude", "-sonnet-4">>, <<"gpt", "-4">>}

PersonaNames == {<<"code-reviewer">>, <<"Vision", "-analyst">>}

ActionNames == {<<"git.", "commit">>}

InputTemplates == {<<"Review the change">>, <<"Ask ", "gemini", " to review">>}

\* The stage mappings of a document: a stage has `persona` or is of
\* `type: action`.
CredStages ==
    {st \in [persona : PersonaNames \cup {NoText}, model : ModelNames \cup {NoText},
             code_execution : BOOLEAN, action : ActionNames \cup {NoText},
             input_template : InputTemplates] :
        (st.persona = NoText) = (st.action # NoText)}

\* _extract_required_credentials: what one stage adds to creds.
StageCredentials(stage) ==
    LET model == GetOr(stage.model, <<>>)
        persona == GetOr(stage.persona, <<>>)
        action == GetOr(stage.action, <<>>)
    IN  (IF ContainsLower(model, "gemini") THEN {"gemini"}
         ELSE IF ContainsLower(model, "claude") \/ ContainsLower(model, "anthropic")
              THEN {"anthropic"} ELSE {})
        \cup (IF ContainsLower(persona, "vision") THEN {"gemini"} ELSE {})
        \cup (IF StartsWith(action, "git.") THEN {"github"} ELSE {})
        \cup (IF ContainsLower(stage.input_template, "gemini") THEN {"gemini"} ELSE {})

\* _extract_required_credentials
ExtractRequiredCredentials(stgs) == UNION {StageCredentials(stgs[i]) : i \in DOMAIN stgs}

\* _parse_stages: the stage type.
StageType(stage) == IF stage.persona # NoText THEN "persona" ELSE "action"

\* _execute_persona_stage: the adapter it calls.
SelectAdapter(stage) ==
    LET model == GetOr(stage.model, <<"claude", "-sonnet-4-20250514">>)
    IN  IF ContainsLower(model, "gemini") /\ stage.code_execution
        THEN "_execute_gemini_agentic_vision"
        ELSE IF ContainsLower(model, "gemini") THEN "_execute_gemini"
        ELSE "_execute_claude"

\* The credential whose secret an adapter reads from the environment.
AdapterCredential(adapter) == IF adapter = "_execute_claude" THEN "anthropic" ELSE "gemini"

\* validate(validate_credentials=True) on a document without other errors:
\* every required credential is probed; a probe fails when the secret is not
\* set, and may fail when it is.
ValidateCredentials ==
    /\ cred_stages # <<>>
    /\ ~credentials.called
    /\ \E accepted \in SUBSET environ :
           LET creds == ExtractRequiredCredentials(cred_stages)
               results == [c \in creds |-> c \in accepted]
           IN  credentials' = [called |-> TRUE, required |-> creds,
                               credential_status |-> results,
                               valid |-> \A c \in creds : results[c]]
    /\ UNCHANGED <<cred_stages, environ, adapters>>
    /\ UNCHANGED <<engineVars, svcVars, docVars, tmplVars, unitVars>>

\* The run of a definition reported valid reaches a persona stage: the adapter
\* raises when its secret is not set.
ExecutePersonaStage(i) ==
    /\ credentials.called
    /\ credentials.valid
    /\ i \in DOMAIN cred_stages
    /\ StageType(cred_stages[i]) = "persona"
    /\ i \notin DOMAIN adapters
    /\ LET adapter == SelectAdapter(cred_stages[i])
       IN  adapters' = Put(adapters, i,
                           [adapter |-> adapter,
                            raised |-> IF AdapterCredential(adapter) \in environ
                                       THEN Null ELSE "API_KEY not set"])
    /\ UNCHANGED <<cred_stages, environ, credentials>>
    /\ UNCHANGED <<engineVars, svcVars, docVars, tmplVars, unitVars>>

InitCreds ==
    /\ \E n \in 1..MaxCredStages : cred_stages \in [1..n -> CredStages]
    /\ environ \in SUBSET {"gemini", "anthropic", "github"}
    /\ credentials = NoCredentials
    /\ adapters = EmptyDict
    /\ ExecIdle
    /\ LoadIdle
    /\ TimersIdle
    /\ ServiceIdle
    /\ DocIdle
    /\ TemplateIdle
    /\ UnitsIdle
    /\ stages = <<>>
    /\ order = NoOrder

NextCreds ==
    \/ ValidateCredentials
    \/ \E i \in 1..MaxCredStages : ExecutePersonaStage(i)

SpecCreds == InitCreds /\ [][NextCreds]_vars

-----------------------------------------------------------------------------
(* SpecDoc: validate and load_from_yaml on whatever the content parses to *)

\* What yaml.safe_load gives: nothing for an empty document, a mapping, or a
\* sequence or scalar. A mapping has or lacks `name`, has or lacks other keys,
\* and its `stages` key is missing, empty (null) or a list.
Documents ==
    {[kind |-> "null", truthy |-> FALSE, name |-> FALSE, other_keys |-> FALSE,
      stages_kind |-> "missing", stages |-> <<>>]}
    \cup {[kind |-> k, truthy |-> t, name |-> FALSE, other_keys |-> FALSE,
           stages_kind |-> "missing", stages |-> <<>>] :
             k \in {"sequence", "scalar"}, t \in BOOLEAN}
    \cup {d \in [kind : {"mapping"}, truthy : BOOLEAN, name : BOOLEAN, other_keys : BOOLEAN,
                 stages_kind : {"missing", "null", "list"},
                 stages : UNION {[1..n -> SourceStages] : n \in 0..MaxSourceStages}] :
             /\ d.truthy = (d.name \/ d.other_keys \/ d.stages_kind # "missing")
             /\ d.stages_kind # "list" => d.stages = <<>>}

\* `if not pipeline:`
Falsy(doc) == ~doc.truthy

\* _validate_structure: the codes of the errors it appends.
ValidateStructure(doc) ==
    {"MISSING_REQUIRED_FIELD" :
        field \in {f \in {"name", "stages"} :
                      \/ f = "name" /\ ~doc.name
                      \/ f = "stages" /\ doc.stages_kind = "missing"}}

\* validate on a document: a falsy document gets the result of the errors
\* found so far, which are none; `in` and `.get` raise on what is no mapping,
\* and the loop over the stages raises on `stages:` without a value.
ValidateDocument(doc, validate_credentials, iteration, credentials_valid) ==
    IF Falsy(doc) THEN [called |-> TRUE, raised |-> FALSE, valid |-> TRUE, errors |-> {}]
    ELSE IF doc.kind # "mapping" \/ doc.stages_kind = "null"
    THEN [called |-> TRUE, raised |-> TRUE, valid |-> FALSE, errors |-> {}]
    ELSE LET structure == ValidateStructure(doc)
             rest == Validate(doc.stages, validate_credentials /\ structure = {},
                              iteration, credentials_valid)
             errors == structure \cup rest.errors
         IN  [called |-> TRUE, raised |-> FALSE, valid |-> errors = {}, errors |-> errors]

\* pipeline_validator.validate(yaml_content, validate_credentials)
ValidateContent ==
    /\ ~doc_validation.called
    /\ \E validate_credentials \in BOOLEAN : \E credentials_valid \in BOOLEAN :
       \E iteration \in Orderings(TruthyIds(document.stages)) :
           doc_validation' = ValidateDocument(document, validate_credentials, iteration,
                                              credentials_valid)
    /\ UNCHANGED <<document, loaded>>
    /\ UNCHANGED <<engineVars, svcVars, credVars, tmplVars, unitVars>>

\* load_from_yaml after validate returned: the ValueError of a definition that
\* is not valid, otherwise `raw.get` on the parsed content.
LoadContent ==
    /\ doc_validation.called
    /\ ~doc_validation.raised
    /\ loaded = Null
    /\ loaded' = IF ~doc_validation.valid THEN "ValueError"
                 ELSE IF document.kind # "mapping" THEN "AttributeError"
                 ELSE "PipelineDefinition"
    /\ UNCHANGED <<document, doc_validation>>
    /\ UNCHANGED <<engineVars, svcVars, credVars, tmplVars, unitVars>>

InitDoc ==
    /\ document \in Documents
    /\ doc_validation = NoDocValidation
    /\ loaded = Null
    /\ ExecIdle
    /\ LoadIdle
    /\ TimersIdle
    /\ ServiceIdle
    /\ CredsIdle
    /\ TemplateIdle
    /\ UnitsIdle
    /\ stages = <<>>
    /\ order = NoOrder

NextDoc ==
    \/ ValidateContent
    \/ LoadContent

SpecDoc == InitDoc /\ [][NextDoc]_vars

-----------------------------------------------------------------------------
(* SpecTemplate: _resolve_template_dict on one string *)

MaxPathLen == 4

MaxFragments == 2

\* The objects in reach of a template. An object is named, so that the same
\* object and a copy or rendering of it are different values.
TypeOf(obj) ==
    CASE obj \in {"stage_outputs", "input_params", "config", "report", "meta"} -> "dict"
      [] obj = "fixes" -> "list"
      [] obj = "summary" -> "str"
      [] OTHER -> "NoneType"

\* The items of the dicts: the roots of the context, and the maps a handler
\* returned.
ItemsOf(obj) ==
    CASE obj = "stage_outputs" -> ctx_outputs
      [] obj = "input_params" -> [fixes |-> "fixes"]
      [] obj = "report" -> [fixes |-> "fixes", meta |-> "meta", summary |-> "summary"]
      [] obj = "meta" -> [fixes |-> "fixes"]
      [] OTHER -> EmptyDict

\* dict.get(key)
DictGet(obj, key) == IF key \in DOMAIN ItemsOf(obj) THEN ItemsOf(obj)[key] ELSE Null

\* _resolve_variable_path: the loop over the parts.
RECURSIVE Navigate(_, _)
Navigate(obj, parts) ==
    IF parts = <<>> THEN obj
    ELSE IF obj = Null THEN Null
    ELSE IF TypeOf(obj) = "dict" THEN Navigate(DictGet(obj, Head(parts)), Tail(parts))
    ELSE Null

\* _resolve_variable_path
ResolveVariablePath(parts) ==
    IF parts[1] = "input" THEN Navigate("input_params", Tail(parts))
    ELSE IF parts[1] = "stages"
    THEN IF Len(parts) < 2 THEN Null
         ELSE LET rest == SubSeq(parts, 3, Len(parts))
              IN  Navigate(DictGet("stage_outputs", parts[2]),
                           IF rest # <<>> /\ rest[1] = "output" THEN Tail(rest) ELSE rest)
    ELSE IF parts[1] = "config" THEN Navigate("config", Tail(parts))
    ELSE Null

\* A string is the sequence of its fragments: literal text, a newline, a
\* `{{ }}` expression that is a dotted path (var), any other `{{ }}`
\* expression (expr); str is the text an object renders to.
TextFragment == [kind |-> "text", text |-> "Apply the fixes", path |-> <<>>]

Newline == [kind |-> "newline", text |-> "", path |-> <<>>]

ExprFragment == [kind |-> "expr", text |-> "{{ 'now' | upper }}", path |-> <<>>]

VarFragment(parts) == [kind |-> "var", text |-> "", path |-> parts]

StrOf(obj) == [kind |-> "str", text |-> obj, path |-> <<>>]

\* simple_var_pattern: the path of the match, <<>> without a match. The
\* string is one expression that is a dotted path, and whitespace around it.
SimpleVarPattern(string) ==
    LET at == {i \in DOMAIN string : string[i].kind = "var"}
    IN  IF Cardinality(at) = 1 /\ \A i \in DOMAIN string \ at : string[i].kind = "newline"
        THEN string[CHOOSE i \in at : TRUE].path
        ELSE <<>>

Undefined == "<Undefined>"

UndefinedError == "<UndefinedError>"

\* jinja2: the value of a dotted path. A name that is no key gives Undefined,
\* and an attribute of Undefined raises.
RECURSIVE Getattr(_, _)
Getattr(obj, parts) ==
    IF parts = <<>> THEN obj
    ELSE IF obj = Undefined THEN UndefinedError
    ELSE IF TypeOf(obj) = "dict" /\ Head(parts) \in DOMAIN ItemsOf(obj)
    THEN Getattr(ItemsOf(obj)[Head(parts)], Tail(parts))
    ELSE Getattr(Undefined, Tail(parts))

\* The variables render() is given: input, stages and config.
JinjaLookup(parts) ==
    Getattr(CASE parts[1] = "input" -> "input_params"
              [] parts[1] = "stages" -> "stage_outputs"
              [] parts[1] = "config" -> "config"
              [] OTHER -> Undefined,
            Tail(parts))

\* Environment(keep_trailing_newline=False), the default: one newline at the
\* end of the template is dropped.
StripTrailingNewline(string) ==
    IF string # <<>> /\ string[Len(string)].kind = "newline"
    THEN SubSeq(string, 1, Len(string) - 1)
    ELSE string

\* template.render: the text of one fragment.
RenderFragment(fragment) ==
    CASE fragment.kind = "var" ->
             IF JinjaLookup(fragment.path) = Undefined
             THEN [kind |-> "text", text |-> "", path |-> <<>>]
             ELSE StrOf(JinjaLookup(fragment.path))
      [] fragment.kind = "expr" -> [kind |-> "text", text |-> "NOW", path |-> <<>>]
      [] OTHER -> fragment

\* _resolve_template on a string of fragments: the rendered text, the string
\* itself when rendering raises.
ResolveTemplateString(string) ==
    IF \E i \in DOMAIN string :
           string[i].kind = "var" /\ JinjaLookup(string[i].path) = UndefinedError
    THEN string
    ELSE LET kept == StripTrailingNewline(string)
         IN  [i \in DOMAIN kept |-> RenderFragment(kept[i])]

\* _resolve_template_dict on a string
ResolveTemplateDict(string) ==
    LET var_path == SimpleVarPattern(string)
        value == IF var_path = <<>> THEN Null ELSE ResolveVariablePath(var_path)
    IN  IF value # Null
        THEN [kind |-> "object", object |-> value, text |-> <<>>]
        ELSE [kind |-> "text", object |-> Null, text |-> ResolveTemplateString(string)]

\* The names a dotted path is made of.
PathParts == {"stages", "input", "a", "output", "fixes", "meta"}

VarPaths == UNION {[1..n -> PathParts] : n \in 1..MaxPathLen}

\* The strings: at most one dotted path, and MaxFragments fragments.
Strings ==
    LET plain == {TextFragment, Newline, ExprFragment}
    IN  UNION {[1..n -> plain] : n \in 1..MaxFragments}
        \cup {<<VarFragment(parts)>> : parts \in VarPaths}
        \cup UNION {{<<VarFragment(parts), f>>, <<f, VarFragment(parts)>>} :
                       parts \in VarPaths, f \in {TextFragment, Newline}}

\* The string is resolved.
ResolveData ==
    /\ data # <<>>
    /\ resolution = NoResolution
    /\ resolution' = ResolveTemplateDict(data)
    /\ UNCHANGED <<data, ctx_outputs>>
    /\ UNCHANGED <<engineVars, svcVars, credVars, docVars, unitVars>>

\* The outputs of the stages a and b are stored, or not, when the string is
\* resolved.
InitTemplate ==
    /\ data \in Strings
    /\ \E done \in SUBSET {"a", "b"} : ctx_outputs \in [done -> {"report", "fixes", "meta"}]
    /\ resolution = NoResolution
    /\ ExecIdle
    /\ LoadIdle
    /\ TimersIdle
    /\ ServiceIdle
    /\ CredsIdle
    /\ DocIdle
    /\ UnitsIdle
    /\ stages = <<>>
    /\ order = NoOrder

NextTemplate == ResolveData

SpecTemplate == InitTemplate /\ [][NextTemplate]_vars

-----------------------------------------------------------------------------
(* SpecOutputs: _aggregate_outputs on the stage outputs of an execution *)

MaxMappedStages == 2

\* The keys an output_mapping gives to the pipeline outputs.
OutputKeys == {"report", "summary"}

\* The fields of a stage output.
OutputFields == {<<"x">>, <<"y">>}

\* The values of an output_mapping: "$.x", "$.y" and "x".
JsonPaths == {<<"$.", "x">>, <<"$.", "y">>, <<"x">>}

\* stage.output_mapping: a dict from output keys to JSON paths.
OutputMappings == UNION {[ks -> JsonPaths] : ks \in SUBSET OutputKeys}

\* What a handler returned: None, a string, or a dict with some fields.
StageOutputs ==
    {[kind |-> "none", fields |-> {}], [kind |-> "str", fields |-> {}]}
        \cup {[kind |-> "dict", fields |-> fs] : fs \in SUBSET OutputFields}

\* The value the output of stage sid has under a field; None is a value too.
FieldValue(sid, field) == [of |-> sid, field |-> field]

NoneValue == [of |-> Null, field |-> <<>>]

\* `if stage_output and stage.output_mapping`: None, "" and {} are falsy.
TruthyOutput(out) == out.kind = "str" \/ (out.kind = "dict" /\ out.fields # {})

\* json_path.startswith("$.")
IsRootPath(json_path) == json_path[1] = "$."

\* json_path[2:]
FieldOf(json_path) == Tail(json_path)

\* stage_output.get(field): the value, or None when the field is absent.
OutputGet(sid, out, field) ==
    IF field \in out.fields THEN FieldValue(sid, field) ELSE NoneValue

\* The for loop over one stage's output_mapping.
MapStage(acc, stage, outs) ==
    IF stage.id \in DOMAIN outs /\ TruthyOutput(outs[stage.id]) /\ DOMAIN stage.output_mapping # {}
    THEN LET out == outs[stage.id]
             set == {k \in DOMAIN stage.output_mapping :
                         IsRootPath(stage.output_mapping[k]) /\ out.kind = "dict"}
         IN  [k \in DOMAIN acc \cup set |->
                 IF k \in set THEN OutputGet(stage.id, out, FieldOf(stage.output_mapping[k]))
                 ELSE acc[k]]
    ELSE acc

\* _aggregate_outputs: the stages in the order of pipeline.stages.
RECURSIVE AggregateFrom(_, _, _, _)
AggregateFrom(acc, stgs, outs, i) ==
    IF i > Len(stgs) THEN acc
    ELSE AggregateFrom(MapStage(acc, stgs[i], outs), stgs, outs, i + 1)

AggregateOutputs ==
    /\ ~aggregated.called
    /\ aggregated' = [called |-> TRUE,
                      outputs |-> AggregateFrom(EmptyDict, mapped_stages, produced, 1)]
    /\ UNCHANGED <<mapped_stages, produced>>
    /\ UNCHANGED <<engineVars, svcVars, credVars, docVars, tmplVars, valVars>>

\* The stages of a pipeline with their output mappings, and the outputs the
\* stages that completed produced.
InitOutputs ==
    /\ \E n \in 0..MaxMappedStages :
           /\ mapped_stages \in
                  {[i \in 1..n |-> [id |-> IdPool[i], output_mapping |-> m[i]]] :
                      m \in [1..n -> OutputMappings]}
           /\ \E done \in SUBSET {IdPool[i] : i \in 1..n} : produced \in [done -> StageOutputs]
    /\ aggregated = NoOutputs
    /\ ExecIdle
    /\ LoadIdle
    /\ TimersIdle
    /\ ServiceIdle
    /\ CredsIdle
    /\ DocIdle
    /\ TemplateIdle
    /\ ValidatorIdle
    /\ stages = <<>>
    /\ order = NoOrder

NextOutputs == AggregateOutputs

SpecOutputs == InitOutputs /\ [][NextOutputs]_vars

-----------------------------------------------------------------------------
(* SpecValidator: two calls of validate on the pipeline_validator singleton *)

ValidateCalls == {1, 2}

\* A document with one stage that has an id and a name: `name` at the top
\* level, `persona` and `timeout_seconds` of the stage are there or not, and
\* config.model names a Gemini model or no model.
ValidatorSources == [name : BOOLEAN, persona : BOOLEAN, timeout_seconds : BOOLEAN,
                     gemini : BOOLEAN]

\* Steps 2 to 5 of validate: the codes and locations of the errors appended
\* to self.errors, in order.
SourceErrors(src) ==
    (IF src.name THEN <<>> ELSE <<"MISSING_REQUIRED_FIELD root.name">>)
        \o (IF src.persona THEN <<>> ELSE <<"INVALID_STAGE stages[0]">>)

\* The warnings appended to self.warnings.
SourceWarnings(src) ==
    IF src.timeout_seconds THEN <<>> ELSE <<"MISSING_TIMEOUT stages[0]">>

\* _extract_required_credentials on the document.
SourceCredentials(src) == IF src.gemini THEN {"gemini"} ELSE {}

\* The error _validate_credentials appends for a credential that is not valid.
InvalidCredential == <<"INVALID_CREDENTIAL credentials.gemini">>

\* The list objects `self.errors = []` and `self.warnings = []` of a call create.
ErrorsOf(c) == IF c = 1 THEN "errors1" ELSE "errors2"

WarningsOf(c) == IF c = 1 THEN "warnings1" ELSE "warnings2"

NoValidationResult == [valid |-> FALSE, errors |-> Null, warnings |-> Null]

\* _build_result: valid from the list self.errors names now, and the lists
\* themselves as errors and warnings of the result.
BuildResult(v, h) ==
    [valid |-> Len(h[v.errors]) = 0, errors |-> v.errors, warnings |-> v.warnings]

\* validate to its first suspension: the two lists are replaced by new ones,
\* the checks of steps 2 to 5 append to them, and with no error the required
\* credentials are probed. A probe whose secret is not set in the
\* environment answers without suspending; otherwise the call is suspended
\* in the HTTP request.
ValidateBegin(c) ==
    /\ c \notin DOMAIN calls
    /\ \E src \in ValidatorSources : \E validate_credentials \in BOOLEAN : \E secret_set \in BOOLEAN :
           LET v == [errors |-> ErrorsOf(c), warnings |-> WarningsOf(c)]
               h == [l \in DOMAIN heap \cup {v.errors, v.warnings} |->
                        IF l = v.errors THEN SourceErrors(src)
                        ELSE IF l = v.warnings THEN SourceWarnings(src)
                        ELSE heap[l]]
               probes == validate_credentials /\ SourceErrors(src) = <<>>
                             /\ SourceCredentials(src) # {}
           IN  /\ validator' = v
               /\ IF probes /\ secret_set
                  THEN /\ heap' = h
                       /\ calls' = Put(calls, c, [source |-> src, pc |-> "probing",
                                                  probe |-> "none",
                                                  result |-> NoValidationResult])
                  ELSE LET failed == [h EXCEPT ![v.errors] = @ \o InvalidCredential]
                           after == IF probes THEN failed ELSE h
                       IN  /\ heap' = after
                           /\ calls' = Put(calls, c, [source |-> src, pc |-> "returned",
                                                      probe |-> IF probes THEN "invalid" ELSE "none",
                                                      result |-> BuildResult(v, after)])
    /\ UNCHANGED <<engineVars, svcVars, credVars, docVars, tmplVars, aggVars>>

\* The HTTP request of the probe answers: _validate_credentials appends the
\* error of a credential that is not valid to self.errors, and validate
\* builds its result from self.errors and self.warnings.
ProbeReturns(c) ==
    /\ c \in DOMAIN calls
    /\ calls[c].pc = "probing"
    /\ \E ok \in BOOLEAN :
           LET after == IF ok THEN heap
                        ELSE [heap EXCEPT ![validator.errors] = @ \o InvalidCredential]
           IN  /\ heap' = after
               /\ calls' = [calls EXCEPT ![c] = [@ EXCEPT !.pc = "returned",
                                                           !.probe = IF ok THEN "valid" ELSE "invalid",
                                                           !.result = BuildResult(validator, after)]]
    /\ UNCHANGED validator
    /\ UNCHANGED <<engineVars, svcVars, credVars, docVars, tmplVars, aggVars>>

InitValidator ==
    /\ ValidatorIdle
    /\ AggregateIdle
    /\ ExecIdle
    /\ LoadIdle
    /\ TimersIdle
    /\ ServiceIdle
    /\ CredsIdle
    /\ DocIdle
    /\ TemplateIdle
    /\ stages = <<>>
    /\ order = NoOrder

NextValidator ==
    \/ \E c \in ValidateCalls : ValidateBegin(c)
    \/ \E c \in ValidateCalls : ProbeReturns(c)

SpecValidator == InitValidator /\ [][NextValidator]_vars

-----------------------------------------------------------------------------
(* The dependency graph of a definition, for the properties *)

DepsOf(stgs, sid) == UNION {stgs[i].depends_on : i \in {j \in DOMAIN stgs : stgs[j].id = sid}}

RefsExist(stgs) == \A i \in DOMAIN stgs : stgs[i].depends_on \subseteq IdsOf(stgs)

RECURSIVE DepClosure(_, _)
DepClosure(stgs, S) ==
    LET T == S \cup UNION {DepsOf(stgs, x) : x \in S}
    IN  IF T = S THEN S ELSE DepClosure(stgs, T)

\* The direct and transitive depends_on ancestors of a stage.
Ancestors(stgs, sid) == DepClosure(stgs, DepsOf(stgs, sid))

HasCycle(stgs) == \E sid \in IdsOf(stgs) : sid \in Ancestors(stgs, sid)

SetMax(S) == CHOOSE x \in S : \A y \in S : y <= x

\* The length of the longest dependency chain below a stage (acyclic graphs).
RECURSIVE ChainLength(_, _)
ChainLength(stgs, sid) ==
    IF DepsOf(stgs, sid) = {} THEN 0
    ELSE 1 + SetMax({ChainLength(stgs, d) : d \in DepsOf(stgs, sid)})

\* The places <<k, i>> of a list of batches that hold an ID, and the (1-based)
\* index of the batch that holds it.
PlacesOf(bl, sid) ==
    {pl \in UNION {{<<k, i>> : i \in DOMAIN bl[k]} : k \in DOMAIN bl} : bl[pl[1]][pl[2]] = sid}

BatchIndexOf(bl, sid) == CHOOSE k \in DOMAIN bl : sid \in Range(bl[k])

PlacedBefore(bl, k) == UNION {Range(bl[j]) : j \in 1..(k - 1)}

-----------------------------------------------------------------------------
(* Properties of the scheduler, under SpecSched *)

\* C1: for a definition whose depends_on graph is acyclic and names only
\* existing stages, get_execution_order returns batches that hold every stage
\* ID exactly once, and every ID of a stage's depends_on is in a batch of
\* strictly smaller index than the stage's own.
C1_BatchesPartitionAndRespectDeps ==
    (order.called /\ ~HasCycle(stages) /\ RefsExist(stages)) =>
        /\ ~order.raised
        /\ UNION {Range(order.batches[k]) : k \in DOMAIN order.batches} = IdsOf(stages)
        /\ \A sid \in IdsOf(stages) : Cardinality(PlacesOf(order.batches, sid)) = 1
        /\ \A i \in DOMAIN stages : \A d \in stages[i].depends_on :
               BatchIndexOf(order.batches, d) < BatchIndexOf(order.batches, stages[i].id)

\* A fork: one root in the first batch and two dependents in the second.
C1_Witness ==
    /\ order.called /\ ~order.raised
    /\ ~HasCycle(stages) /\ RefsExist(stages)
    /\ Len(order.batches) = 2
    /\ Len(order.batches[1]) = 1 /\ Len(order.batches[2]) = 2

\* C2: every batch returned is maximal: batch k holds exactly the stages not
\* in an earlier batch whose whole depends_on lies in the earlier batches, so
\* the index of a stage's batch is the length of its longest dependency
\* chain; A without dependencies and B, C depending on A give [[A], [B, C]].
C2_BatchesAreMaximal ==
    (order.called /\ ~order.raised) =>
        /\ \A k \in DOMAIN order.batches :
               Range(order.batches[k]) =
                   {sid \in IdsOf(stages) \ PlacedBefore(order.batches, k) :
                       DepsOf(stages, sid) \subseteq PlacedBefore(order.batches, k)}
        /\ \A sid \in IdsOf(stages) :
               BatchIndexOf(order.batches, sid) - 1 = ChainLength(stages, sid)
        /\ (stages = <<SchedStage("a", {}), SchedStage("b", {"a"}), SchedStage("c", {"a"})>>) =>
               /\ Len(order.batches) = 2
               /\ Range(order.batches[1]) = {"a"}
               /\ Range(order.batches[2]) = {"b", "c"}

\* The A, B, C example, scheduled.
C2_Witness ==
    /\ order.called /\ ~order.raised
    /\ stages = <<SchedStage("a", {}), SchedStage("b", {"a"}), SchedStage("c", {"a"})>>
    /\ order.batches = <<(<<"a">>), (<<"c", "b">>)>>

-----------------------------------------------------------------------------
(* Properties of the executor, under Spec *)

Scheduled == order.called /\ ~order.raised

BatchOf(sid) == BatchIndexOf(order.batches, sid)

LaterStages(sid) == {t \in IdsOf(stages) : BatchOf(t) > BatchOf(sid)}

StatusOf(results, sid) == IF sid \in DOMAIN results THEN results[sid] ELSE "absent"

\* _execute_stage was entered for the stage.
Entered(sid) == sid \in DOMAIN cond /\ cond[sid] # "unread"

\* The stage failed and its `required` was read as req.
FailedWith(sid, req) == sid \in DOMAIN required /\ req \in required[sid]

\* C3: for a definition whose depends_on graph has a cycle, validate returns
\* valid=false with a CIRCULAR_DEPENDENCY error, and on the trigger and run
\* routes the load raises: no definition is built, get_execution_order is
\* not called and execute() is not entered.
C3_CyclicDefinitionIsRejected ==
    HasCycle(ParseStages(source)) =>
        /\ validation.called =>
               (~validation.valid /\ "CIRCULAR_DEPENDENCY" \in validation.errors)
        /\ ~order.called
        /\ stages = <<>>
        /\ pc \in {"request", "rejected", "not_found"}

\* C4: when a required stage fails under on_failure: stop, the run aborts
\* after that batch: no stage of a later batch is started, the result has
\* success=false, the failed stage's StageResult is failed and the stages of
\* later batches are absent from stage_results.
C4_RequiredFailureStopsTheRun ==
    \A sid \in IdsOf(stages) :
        (Scheduled /\ FailedWith(sid, TRUE) /\ on_failure = "stop") =>
            /\ batch_idx = BatchOf(sid)
            /\ pc \in {"gather", "returned"}
            /\ StatusOf(stage_results, sid) = "failed"
            /\ \A t \in LaterStages(sid) :
                   /\ task[t] = "none"
                   /\ ~Entered(t)
                   /\ invoked[t] = 0
                   /\ t \notin DOMAIN stage_results
            /\ pc = "returned" =>
                   /\ result.returned /\ ~result.success
                   /\ StatusOf(result.stage_results, sid) = "failed"
                   /\ \A t \in LaterStages(sid) : t \notin DOMAIN result.stage_results

\* An aborted run: a required stage failed, a sibling completed, a later
\* batch was never started.
C4_Witness ==
    /\ pc = "returned" /\ Scheduled /\ on_failure = "stop"
    /\ \E sid, sib \in IdsOf(stages) :
           /\ FailedWith(sid, TRUE)
           /\ sib # sid /\ BatchOf(sib) = BatchOf(sid)
           /\ StatusOf(result.stage_results, sib) = "completed"
           /\ LaterStages(sid) # {}

C6_SiblingOutputsNotVisible ==
    \A t \in resolved : \A a \in seen[t] : a = t \/ BatchOf(a) # BatchOf(t)

RendersTrue(condition) ==
    /\ condition \notin SyntaxErrors
    /\ Lower(Render(condition)) \in {"true", "1", "yes"}

\* C8: a stage whose condition does not render to true, 1 or yes, or fails to
\* resolve, has a skipped StageResult, its handler is not invoked, it has no
\* entry in stage_outputs and it is not evaluated again.
C8_UnmetConditionSkips ==
    \A sid \in IdsOf(stages) :
        (Scheduled /\ Entered(sid) /\ cond[sid] # Null /\ ~RendersTrue(cond[sid])) =>
            /\ StatusOf(stage_results, sid) = "skipped"
            /\ invoked[sid] = 0
            /\ sid \notin resolved
            /\ sid \notin DOMAIN stage_outputs
            /\ task[sid] = "returned"

\* Every condition read so far was None or met, and no handler raised.
AllMetAndReturned ==
    /\ \A sid \in IdsOf(stages) : Entered(sid) => (cond[sid] = Null \/ RendersTrue(cond[sid]))
    /\ \A sid \in IdsOf(stages) : required[sid] = {}

\* C9: when every condition is met and every handler returns, execute
\* returns success=true with a completed StageResult for every stage, and
\* each handler is invoked once, after every stage of its depends_on
\* completed.
C9_AllStagesCompleteInOrder ==
    (Scheduled /\ AllMetAndReturned) =>
        /\ \A sid \in IdsOf(stages) :
               /\ invoked[sid] <= 1
               /\ invoked[sid] = 1 =>
                      \A d \in DepsOf(stages, sid) : StatusOf(stage_results, d) = "completed"
        /\ pc = "returned" =>
               /\ result.success
               /\ \A sid \in IdsOf(stages) :
                      /\ StatusOf(result.stage_results, sid) = "completed"
                      /\ invoked[sid] = 1

\* A chain of three stages, one with a met condition, all completed.
C9_Witness ==
    /\ pc = "returned" /\ Scheduled /\ AllMetAndReturned /\ result.success
    /\ Len(order.batches) = 3
    /\ \E sid \in IdsOf(stages) : cond[sid] = "{{ 'YES' }}"

\* C10: a handler error never leaves execute as an exception: execute goes
\* on until it returns an ExecutionResult, and the result of an aborted run
\* has success=false, an error string and the StageResult of every stage
\* that ran.
C10_ExecuteAlwaysReturnsAResult ==
    /\ pc # "escaped"
    /\ pc # "returned" => ENABLED Next
    /\ pc = "returned" <=> result.returned
    /\ (pc = "returned" /\ ~result.success) =>
           /\ result.error # Null
           /\ \A sid \in IdsOf(stages) :
                  (~order.raised /\ Entered(sid)) =>
                      StatusOf(result.stage_results, sid) \in {"completed", "failed", "skipped"}

\* An aborted run whose result holds a failed and a completed stage.
C10_Witness ==
    /\ pc = "returned" /\ Scheduled /\ ~result.success /\ result.error = "stage failed"
    /\ \E sid, sib \in IdsOf(stages) :
           /\ invoked[sid] = 1
           /\ StatusOf(result.stage_results, sid) = "failed"
           /\ StatusOf(result.stage_results, sib) = "completed"

\* C11: a stage whose handler has not finished when its timeout_seconds
\* elapses has the invocation cancelled and ends with a failed StageResult:
\* once its task is done the result is failed, and it is never completed.
C11_TimedOutStageFails ==
    \A sid \in timed_out :
        /\ StatusOf(stage_results, sid) # "completed"
        /\ task[sid] # "awaiting" => StatusOf(stage_results, sid) = "failed"

\* The stages of the batches the for loop has taken so far.
StagesUpTo(k) == {sid \in IdsOf(stages) : BatchOf(sid) <= k}

\* C12: a failure in a batch does not cancel the stages already started in
\* it: a suspended sibling can still be resumed, and when the loop over the
\* results of gather runs (where the run decides whether to abort) every
\* stage of the batch is done and has a terminal StageResult.
C12_SiblingsRunToTheirEnd ==
    Scheduled =>
        /\ pc \in {"loop", "returned"} =>
               \A sid \in StagesUpTo(batch_idx) :
                   /\ task[sid] \in {"returned", "raised"}
                   /\ StatusOf(stage_results, sid) \in {"completed", "failed", "skipped"}
        /\ pc = "gather" =>
               \A sid \in Range(order.batches[batch_idx]) :
                   /\ task[sid] \in {"ready", "awaiting", "returned", "raised"}
                   /\ (task[sid] = "awaiting" /\ started = Len(order.batches[batch_idx]))
                          => ENABLED StageResumeReturn(sid)

\* A required stage failed under on_failure: stop while a sibling's handler
\* is still awaited.
C12_Witness ==
    /\ pc = "gather" /\ Scheduled /\ on_failure = "stop"
    /\ started = Len(order.batches[batch_idx])
    /\ \E sid, sib \in Range(order.batches[batch_idx]) :
           /\ FailedWith(sid, TRUE) /\ task[sid] = "raised"
           /\ task[sib] = "awaiting"

-----------------------------------------------------------------------------
(* Properties of the task-graph variant, under SpecService *)

\* C13: at every moment of execute_pipeline the number of tasks that were
\* started and have not finished is at most the pipeline's max_parallel,
\* whatever the size of the batch.
C13_InFlightWithinMaxParallel ==
    pipeline.state # Null => Cardinality(InFlight) <= pipeline.max_parallel

\* A batch larger than max_parallel: the permits are all taken and a task of
\* the batch waits.
C13_Witness ==
    /\ pipeline.state # Null
    /\ exe.pc = "batch"
    /\ Len(exe.order[exe.batch]) > pipeline.max_parallel
    /\ Cardinality(InFlight) = pipeline.max_parallel
    /\ \E t \in DOMAIN run_task : run_task[t] = "waiting"

-----------------------------------------------------------------------------
(* Properties of the credential checks, under SpecCreds *)

\* The credentials the adapter selection of the executor needs for the
\* persona stages of the document.
NeededCredentials ==
    {AdapterCredential(SelectAdapter(cred_stages[i])) :
        i \in {j \in DOMAIN cred_stages : StageType(cred_stages[j]) = "persona"}}

\* C14: when validate with validate_credentials=true reports valid, every
\* credential the adapter selection needs for a persona stage was in the
\* required set and probed valid, and no adapter of the run raises for lack
\* of its secret.
C14_NeededCredentialsAreChecked ==
    (credentials.called /\ credentials.valid) =>
        /\ \A c \in NeededCredentials :
               c \in credentials.required /\ credentials.credential_status[c]
        /\ \A i \in DOMAIN adapters : adapters[i].raised = Null

-----------------------------------------------------------------------------
(* Properties of validate on a parsed document, under SpecDoc *)

\* The definition lacks `name` or has no stage.
LacksNameOrStages(doc) ==
    doc.kind # "mapping" \/ ~doc.name \/ doc.stages_kind # "list" \/ doc.stages = <<>>

\* C15: for every content that parses, the empty document and the empty
\* mapping included, a definition that lacks name or has no stage gets
\* MISSING_REQUIRED_FIELD errors and valid=false: validate neither reports it
\* valid nor raises.
C15_MissingNameOrStagesIsReported ==
    (doc_validation.called /\ LacksNameOrStages(document)) =>
        /\ ~doc_validation.raised
        /\ ~doc_validation.valid
        /\ "MISSING_REQUIRED_FIELD" \in doc_validation.errors

-----------------------------------------------------------------------------
(* Properties of validate on the stages of a document, under SpecLoad *)

\* C16: a definition that validate reports valid has stage IDs that are
\* non-empty and pairwise distinct, and every ID a depends_on names is the ID
\* of a stage of the definition.
C16_ValidDefinitionsSatisfyInvariants ==
    (validation.called /\ validation.valid) =>
        /\ \A i \in DOMAIN source : Truthy(source[i].id)
        /\ \A i, j \in DOMAIN source : source[i].id = source[j].id => i = j
        /\ \A i \in DOMAIN source :
               source[i].depends_on \subseteq {source[j].id : j \in DOMAIN source}

-----------------------------------------------------------------------------
(* Properties of template resolution, under SpecTemplate *)

\* What the stored output of stage sid holds at the keys below it.
RECURSIVE StoredAt(_, _)
StoredAt(obj, keys) ==
    IF keys = <<>> THEN obj
    ELSE IF TypeOf(obj) = "dict" /\ Head(keys) \in DOMAIN ItemsOf(obj)
    THEN StoredAt(ItemsOf(obj)[Head(keys)], Tail(keys))
    ELSE Null

\* The string is exactly one expression "{{ stages.<sid>.output<.keys> }}".
NamesStageOutput(string) ==
    /\ Len(string) = 1
    /\ string[1].kind = "var"
    /\ Len(string[1].path) >= 3
    /\ string[1].path[1] = "stages"
    /\ string[1].path[2] \in DOMAIN ctx_outputs
    /\ string[1].path[3] = "output"

NamedValue(string) ==
    StoredAt(ctx_outputs[string[1].path[2]], SubSeq(string[1].path, 4, Len(string[1].path)))

HasExpression(string) == \E i \in DOMAIN string : string[i].kind \in {"var", "expr"}

\* C17 (first half): a string that is exactly one bare expression naming a
\* stage's output, or a path below it, resolves to the stored map or list
\* itself, not to its rendering.
C17_BareExpressionGivesStoredObject ==
    (resolution # NoResolution /\ NamesStageOutput(data)
        /\ TypeOf(NamedValue(data)) \in {"dict", "list"}) =>
        resolution = [kind |-> "object", object |-> NamedValue(data), text |-> <<>>]

\* C17: a string that is exactly one bare expression naming a stage's output
\* resolves to the stored map or list itself, and a string that contains no
\* expression resolves to itself.
C17_ResolutionKeepsObjectsAndPlainText ==
    /\ C17_BareExpressionGivesStoredObject
    /\ (resolution # NoResolution /\ ~HasExpression(data)) =>
           resolution = [kind |-> "text", object |-> Null, text |-> data]

-----------------------------------------------------------------------------
(* Properties of retry, pause and cancel, under SpecService *)

\* retry_pipeline passed its state check in this step.
RetryActs == retry_result'.calls = retry_result.calls + 1

\* retry_pipeline returned None in this step.
RetryReturnsNone == retry_result' # retry_result /\ retry_result'.calls = retry_result.calls

\* The run that a retry started ended FAILED or COMPLETED.
RetriedRunEnded ==
    /\ retry_result.calls > 0
    /\ exe.pc = "idle"
    /\ pipeline.state \in {"failed", "completed"}

C19_PauseAndCancelAtBatchBoundary ==
    [][/\ exe'.batch > exe.batch => pipeline.state = "running"
       /\ (pipeline.state = "running" /\ pipeline'.state \in {"paused", "cancelled"}) =>
              UNCHANGED <<exe, run_task, runs>>
       /\ \A t \in DOMAIN run_task :
              run_task[t] = "in_flight" =>
                  /\ t \in DOMAIN run_task'
                  /\ run_task'[t] \in {"in_flight", "done"}
                  /\ pipeline.state # "running" => ENABLED ExecuteAndCount(t)
      ]_vars

\* The pipeline was paused or cancelled during the first of its batches: the
\* tasks of that batch ran, the loop ended at the check, no later task ran.
C19_Witness ==
    /\ pipeline.state \in {"paused", "cancelled"}
    /\ ~pipeline.stop_on_failure
    /\ exe.pc = "idle"
    /\ exe.batch = 1
    /\ Len(exe.order) > 1
    /\ \A t \in Range(exe.order[1]) : runs[t] = 1
    /\ \A t \in Range(exe.order[2]) : runs[t] = 0

-----------------------------------------------------------------------------
(* Properties of the progress events, under SpecProgress *)

Emitted(sid, status) == [stage_id |-> sid, status |-> status] \in Range(events)

\* C20: in a run that is given an on_progress callback, every status a stage
\* takes is emitted as an event: running when its handler is about to be
\* called, and completed, failed or skipped with its StageResult.
C20_EveryTransitionEmitsAnEvent ==
    on_progress =>
        \A sid \in DOMAIN stage_results :
            /\ Emitted(sid, stage_results[sid])
            /\ stage_results[sid] \in {"completed", "failed"} => Emitted(sid, "running")

\* C20 without skipped: running, completed and failed are emitted.
C20_RunningCompletedFailedAreEmitted ==
    on_progress =>
        \A sid \in DOMAIN stage_results :
            stage_results[sid] \in {"completed", "failed"} =>
                Emitted(sid, stage_results[sid]) /\ Emitted(sid, "running")

-----------------------------------------------------------------------------
(* The task-graph variant against the stage scheduler, under SpecService *)

\* What the stage scheduler does with the dependency graph of the pipeline.
StageSchedulerOnTasks == TopologicalSort(SchedDefinition(pipeline.tasks, pipeline.dependencies))

\* execute_pipeline got an execution order from _build_execution_order.
OrderBuilt == pipeline.state # Null /\ exe.pc \in {"loop", "batch"}

\* C21: for the same dependency graph _build_execution_order gives the
\* batches of the stage scheduler, the same sets in the same order, and where
\* the scheduler raises for an empty batch with tasks remaining it returns no
\* partial order.
C21_SameBatchesAsStageScheduler ==
    OrderBuilt =>
        /\ ~StageSchedulerOnTasks.raised
        /\ [k \in DOMAIN exe.order |-> Range(exe.order[k])] = StageSchedulerOnTasks.batches

-----------------------------------------------------------------------------
(* The life of a StageResult, under SpecProgress *)

TerminalStatuses == {"completed", "failed", "skipped"}

\* C22: a stage's recorded terminal status (completed, failed or skipped) is
\* never replaced by a different status, also when the progress callback
\* fails after the handler succeeded.
C22_TerminalStatusNeverReplaced ==
    [][\A sid \in DOMAIN stage_results :
           stage_results[sid] \in TerminalStatuses =>
               /\ sid \in DOMAIN stage_results'
               /\ stage_results'[sid] = stage_results[sid]]_vars

\* C23: context.stage_outputs holds an entry for a stage only if the stage's
\* StageResult is completed; a failed, skipped or running stage has none.
C23_OutputOnlyForCompletedStage ==
    \A sid \in DOMAIN stage_outputs :
        /\ sid \in DOMAIN stage_results
        /\ stage_results[sid] = "completed"

-----------------------------------------------------------------------------
(* The aggregated outputs, under SpecOutputs *)

\* The stages whose output mapping gives key from a field their output has.
Projecting(key) ==
    {i \in DOMAIN mapped_stages :
        LET stage == mapped_stages[i]
        IN  /\ key \in DOMAIN stage.output_mapping
            /\ IsRootPath(stage.output_mapping[key])
            /\ stage.id \in DOMAIN produced
            /\ produced[stage.id].kind = "dict"
            /\ FieldOf(stage.output_mapping[key]) \in produced[stage.id].fields}

\* C24: the outputs of the ExecutionResult are exactly the projection of the
\* output mappings: a key is set to the field of the stage output that the
\* mapping names when the output is a map with that field, and no key is set
\* when the field is absent or the stage produced no output.
C24_OutputsAreTheProjection ==
    aggregated.called =>
        /\ DOMAIN aggregated.outputs = {key \in OutputKeys : Projecting(key) # {}}
        /\ \A key \in DOMAIN aggregated.outputs :
               \E i \in Projecting(key) :
                   aggregated.outputs[key] =
                       FieldValue(mapped_stages[i].id, FieldOf(mapped_stages[i].output_mapping[key]))

-----------------------------------------------------------------------------
(* The progress counters of the task-graph variant, under SpecRequests *)

TasksDone == pipeline.completed_tasks + pipeline.failed_tasks

\* C25: for a pipeline with total_tasks > 0, after any sequence of start,
\* execute, pause, resume, cancel and retry, progress_percent is
\* (completed_tasks + failed_tasks) / total_tasks * 100 and completed_tasks
\* + failed_tasks does not exceed total_tasks.
C25_ProgressWithinTotal ==
    (pipeline.state # Null /\ pipeline.total_tasks > 0) =>
        /\ pipeline.progress_percent = (TasksDone * 100) \div pipeline.total_tasks
        /\ TasksDone <= pipeline.total_tasks

-----------------------------------------------------------------------------
(* The results of validate, under SpecValidator *)

\* The errors the source of a call has: those of the checks on the document
\* and that of its own probe.
OwnErrors(c) ==
    SourceErrors(calls[c].source)
        \o (IF calls[c].probe = "invalid" THEN InvalidCredential ELSE <<>>)

\* C26: the results of two calls of validate on the singleton, one begun
\* while the other is suspended in a credential probe, hold each exactly the
\* errors and the warnings of their own source, and are valid exactly when
\* their own source has no error.
C26_ResultsHoldOwnFindings ==
    \A c \in DOMAIN calls :
        calls[c].pc = "returned" =>
            /\ heap[calls[c].result.errors] = OwnErrors(c)
            /\ heap[calls[c].result.warnings] = SourceWarnings(calls[c].source)
            /\ calls[c].result.valid = (OwnErrors(c) = <<>>)

-----------------------------------------------------------------------------
(* The tasks of a batch, under SpecService *)

\* run_task of t got the task back from execute_task and counted it.
TaskCounted(t) ==
    /\ t \in DOMAIN run_task
    /\ run_task[t] = "in_flight"
    /\ run_task'[t] = "done"

\* C27: a Task created PENDING whose execution raises no error ends
\* COMPLETED, and run_task counts it in completed_tasks, not in failed_tasks.
C27_FreshTaskEndsCompleted ==
    [][\A t \in TaskNames :
           (TaskCounted(t) /\ task_state[t] = "pending") =>
               /\ task_state'[t] = "completed"
               /\ pipeline'.completed_tasks = pipeline.completed_tasks + 1
               /\ pipeline'.failed_tasks = pipeline.failed_tasks]_vars

-----------------------------------------------------------------------------
(* The states of a pipeline, under SpecRequests *)

\* C28: every change of the pipeline's state made by start, execute, pause,
\* resume, cancel or retry is a transition of PIPELINE_TRANSITIONS; COMPLETED
\* and CANCELLED are never left, also when the batch that was in flight at
\* the cancellation finishes.
C28_StateChangesFollowTransitions ==
    [][pipeline.state # Null =>
           /\ pipeline'.state # pipeline.state =>
                  pipeline'.state \in PipelineTransitions[pipeline.state]
           /\ pipeline.state \in {"completed", "cancelled"} =>
                  pipeline'.state = pipeline.state]_vars

\* The pipeline was cancelled while its batch was in flight, and every task
\* of the batch has been counted since, one of them as failed.
C28_CancelledBatchFinishes ==
    /\ pipeline.state = "cancelled"
    /\ exe.pc = "batch"
    /\ \A t \in Range(exe.order[exe.batch]) : run_task[t] = "done"
    /\ pipeline.failed_tasks > 0

-----------------------------------------------------------------------------
(* The end of execute_pipeline, under SpecTermination *)

\* C29: execute_pipeline returns for every task list, dependency map and
\* max_parallel that create_pipeline accepts, max_parallel = 0 and cyclic
\* dependencies included.
C29_ExecuteTerminates == (exe.pc = "starting") ~> (exe.pc = "idle")

-----------------------------------------------------------------------------
(* The COMPLETED pipeline, under SpecService *)

\* C30: a pipeline is COMPLETED only if every task of the pipeline was
\* executed exactly once and none failed: completed_tasks = total_tasks and
\* failed_tasks = 0. Tasks that cannot be scheduled prevent COMPLETED.
C30_CompletedMeansEveryTaskRan ==
    (pipeline.state = "completed") =>
        /\ \A t \in Range(pipeline.tasks) : runs[t] = 1
        /\ pipeline.completed_tasks = pipeline.total_tasks
        /\ pipeline.failed_tasks = 0

=============================================================================
